---- MODULE Spec2Model ----
(***************************************************************************)
(* AlphaForge knob / enclosure modeler: the parametric geometry engine.    *)
(*                                                                         *)
(* Lengths are fixed-point integers in hundredths of a millimetre          *)
(* (Mm(18) = 1800 stands for 18 mm, 15 for 0.15 mm).  Angles are integers  *)
(* in units of 1/1152 of a turn (Pi = 576): the 128 sampling steps of the  *)
(* fluted profile and the 36 vertices of the splined bore both fall on     *)
(* whole units.  Sines and cosines are scaled by 1000.                     *)
(***************************************************************************)
EXTENDS Integers, Sequences, FiniteSets, TLC

VARIABLES knobParams, shapes, slices, enclosureParams, drills, svg,
          posts, screws, clampDeps,
          appMode, knobHistory, knobHistoryIndex, enclosureHistory,
          enclosureHistoryIndex, historyTimeoutRef, isGenerating, aiCall, toast,
          hidden, stl, isExporting,
          geometries, meshBuild, cleanupOf, activeTab,
          build, autoUpdater, autoCheckTimer, updateState, updateInfo, progress,
          error, visible, hideTimers

\* the record, what KnobMesh has built from it, and the files exported of it
knobRecordVars == <<knobParams, shapes, slices, stl>>

\* with the objects of the knob group whose visible flag is false
knobVars == <<knobParams, shapes, slices, stl, hidden>>

exportVars == <<isExporting>>

\* the slice geometries built so far, build by build; the build the meshes
\* show; the build whose slices the installed cleanup closes over; the tab
geoVars == <<geometries, meshBuild, cleanupOf, activeTab>>

\* the main process: the kind of build running, the updater and the timer of
\* the check at launch
mainVars == <<build, autoUpdater, autoCheckTimer>>

\* UpdateNotification: its state, and the auto-hide timers pending
notifierVars == <<updateState, updateInfo, progress, error, visible, hideTimers>>

updateVars == <<mainVars, notifierVars>>

enclosureVars == <<enclosureParams, drills, svg, posts, screws>>

\* the dependency values the clamp effect last ran with
clampVars == <<clampDeps>>

\* the mode, the undo histories, the pending debounce timer, the AI request
\* in flight and the toast last shown
appVars == <<appMode, knobHistory, knobHistoryIndex, enclosureHistory,
             enclosureHistoryIndex, historyTimeoutRef, isGenerating, aiCall,
             toast>>

vars == <<knobParams, shapes, slices, enclosureParams, drills, svg,
          posts, screws, clampDeps,
          appMode, knobHistory, knobHistoryIndex, enclosureHistory,
          enclosureHistoryIndex, historyTimeoutRef, isGenerating, aiCall, toast,
          hidden, stl, isExporting,
          geometries, meshBuild, cleanupOf, activeTab,
          build, autoUpdater, autoCheckTimer, updateState, updateInfo, progress,
          error, visible, hideTimers>>

----------------------------------------------------------------------------
(* Numbers *)

Mm(n) == n * 100

Min(a, b) == IF a < b THEN a ELSE b

Max(a, b) == IF a > b THEN a ELSE b

Abs(a) == IF a < 0 THEN 0 - a ELSE a

\* The value a JavaScript Number takes when an operation has no real result.
NaN == -99999999

\* A field that is absent from a record (JavaScript undefined).
Undefined == -88888888

IsNaN(v) == v = NaN

----------------------------------------------------------------------------
(* types.ts *)

D_SHAFT == "D-Shaft"

ROUND == "Round (Set Screw)"

SPLINED == "Splined (Knurled)"

ShaftType == {D_SHAFT, ROUND, SPLINED}

CYLINDER == "Cylinder"

POLYGON == "Polygon"

FLUTED == "Fluted"

DROP == "Teardrop"

POINTER == "Pointer / Nub"

KnobShape == {CYLINDER, POLYGON, FLUTED, DROP, POINTER}

DEFAULT_KNOB ==
  [ diameter      |-> Mm(20),
    height        |-> Mm(18),
    shape         |-> CYLINDER,
    polygonSides  |-> 6,
    fluteCount    |-> 10,
    closedTop     |-> TRUE,
    hasCap        |-> FALSE,
    capHeight     |-> Mm(3),
    capColor      |-> "#ff0000",
    pointerIndent |-> TRUE,
    shaftType     |-> SPLINED,
    shaftDiameter |-> Mm(6),
    shaftDepth    |-> Mm(14),
    dFlatSize     |-> 450,
    holeTolerance |-> Undefined,
    skirtHeight   |-> 0,
    skirtDiameter |-> Mm(22) ]

----------------------------------------------------------------------------
(* Math: angles and roots on the fixed-point grid *)

Pi == 576

TwoPi == 2 * Pi

HalfPi == Pi \div 2

\* sin on [0, 2 Pi), scaled by 1000 (Bhaskara's rational approximation,
\* exact at the multiples of Pi/2 and Pi/6).
SinCalc(a) ==
  LET b == IF a <= Pi THEN a ELSE a - Pi
      p == b * (Pi - b)
      s == (4000 * p) \div (((5 * Pi * Pi) \div 4) - p)
  IN  IF a <= Pi THEN s ELSE 0 - s

Sin(a) == IF IsNaN(a) THEN NaN ELSE SinCalc(a % TwoPi)

Cos(a) == IF IsNaN(a) THEN NaN ELSE SinCalc((a + HalfPi) % TwoPi)

RECURSIVE AsinSearch(_, _, _)
\* the largest angle in lo..hi whose sine does not exceed v
AsinSearch(v, lo, hi) ==
  IF lo >= hi THEN lo
  ELSE LET mid == (lo + hi + 1) \div 2
       IN  IF Sin(mid) <= v THEN AsinSearch(v, mid, hi)
                            ELSE AsinSearch(v, lo, mid - 1)

\* Math.asin of v/1000: NaN outside [-1, 1]
Asin(v) ==
  IF IsNaN(v) \/ v > 1000 \/ v < -1000 THEN NaN
  ELSE IF v < 0 THEN 0 - AsinSearch(0 - v, 0, HalfPi)
  ELSE AsinSearch(v, 0, HalfPi)

\* Math.acos of v/1000
Acos(v) == IF IsNaN(Asin(v)) THEN NaN ELSE HalfPi - Asin(v)

RECURSIVE SqrtSearch(_, _, _)
SqrtSearch(n, lo, hi) ==
  IF lo >= hi THEN lo
  ELSE LET mid == (lo + hi + 1) \div 2
       IN  IF mid * mid <= n THEN SqrtSearch(n, mid, hi)
                             ELSE SqrtSearch(n, lo, mid - 1)

\* Math.sqrt: NaN for a negative argument
Sqrt(n) ==
  IF IsNaN(n) \/ n < 0 THEN NaN ELSE SqrtSearch(n, 0, Min(n, 40000))

\* unary minus and the product v * c / 1000 of a length and a scaled
\* sine, both propagating NaN
Neg(v) == IF IsNaN(v) THEN NaN ELSE 0 - v

Scaled(v, c) ==
  IF IsNaN(v) \/ IsNaN(c) THEN NaN
  ELSE IF v * c < 0 THEN 0 - ((0 - (v * c)) \div 1000)
  ELSE (v * c) \div 1000

----------------------------------------------------------------------------
(* THREE.Path as used by KnobMesh: a list of drawing commands *)

moveTo(x, y) == [ op |-> "moveTo", x |-> x, y |-> y ]

lineTo(x, y) == [ op |-> "lineTo", x |-> x, y |-> y ]

absarc(x, y, r, aStart, aEnd, clockwise) ==
  [ op |-> "absarc", x |-> x, y |-> y, r |-> r,
    aStart |-> aStart, aEnd |-> aEnd, clockwise |-> clockwise ]

closePath == [ op |-> "closePath" ]

\* The angle swept by an arc from aStart to aEnd: the end angle is reduced
\* into one turn from the start, a coincident pair of angles sweeps nothing
\* and a clockwise arc sweeps the complementary negative angle.
ArcDelta(aStart, aEnd, clockwise) ==
  IF IsNaN(aStart) \/ IsNaN(aEnd) THEN NaN
  ELSE LET d0 == aEnd - aStart
           samePoints == d0 = 0
           d1 == IF d0 < 0 THEN d0 % TwoPi
                 ELSE IF d0 > TwoPi THEN ((d0 - 1) % TwoPi) + 1
                 ELSE d0
           d2 == IF d1 = 0 THEN (IF samePoints THEN 0 ELSE TwoPi) ELSE d1
       IN  IF clockwise /\ ~samePoints
             THEN (IF d2 = TwoPi THEN 0 - TwoPi ELSE d2 - TwoPi)
             ELSE d2

\* number of segments an arc is divided into when the path is sampled
ArcDivisions == 24

ArcPoints(c) ==
  LET delta == ArcDelta(c.aStart, c.aEnd, c.clockwise)
  IN  [ i \in 1..(ArcDivisions + 1) |->
          LET angle == IF IsNaN(delta) THEN NaN
                       ELSE c.aStart + (delta * (i - 1)) \div ArcDivisions
          IN  IF IsNaN(angle) THEN <<NaN, NaN>>
              ELSE << c.x + Scaled(c.r, Cos(angle)),
                      c.y + Scaled(c.r, Sin(angle)) >> ]

CommandPoints(c) ==
  CASE c.op = "absarc"    -> ArcPoints(c)
    [] c.op = "closePath" -> << >>
    [] OTHER              -> << <<c.x, c.y>> >>

RECURSIVE PointsOfRange(_, _, _)
PointsOfRange(path, lo, hi) ==
  IF lo > hi THEN << >>
  ELSE IF lo = hi THEN CommandPoints(path[lo])
  ELSE LET mid == (lo + hi) \div 2
       IN  PointsOfRange(path, lo, mid) \o PointsOfRange(path, mid + 1, hi)

\* the vertices of the closed polygon a path is sampled to
PathPoints(path) == PointsOfRange(path, 1, Len(path))

HasNaNPoint(pts) == \E i \in 1..Len(pts) : IsNaN(pts[i][1]) \/ IsNaN(pts[i][2])

RECURSIVE ShoelaceSum(_, _, _)
\* the sum over the edges lo..hi of the cross product of their end points
ShoelaceSum(pts, lo, hi) ==
  IF lo > hi THEN 0
  ELSE IF lo = hi
    THEN LET p == pts[lo]
             q == pts[(lo % Len(pts)) + 1]
         IN  p[1] * q[2] - q[1] * p[2]
  ELSE LET mid == (lo + hi) \div 2
       IN  ShoelaceSum(pts, lo, mid) + ShoelaceSum(pts, mid + 1, hi)

\* twice the signed area enclosed by the sampled path, in units of
\* (0.1 mm)^2: positive for a counter-clockwise boundary, negative for a
\* clockwise one, NaN when a vertex is NaN
SignedArea(path) ==
  LET pts == PathPoints(path)
      dm  == [ i \in 1..Len(pts) |-> << pts[i][1] \div 10, pts[i][2] \div 10 >> ]
  IN  IF HasNaNPoint(pts) THEN NaN ELSE ShoelaceSum(dm, 1, Len(dm))

----------------------------------------------------------------------------
(* KnobMesh: the 2D profiles *)

steps == 128

teeth == 18

OuterProfile(params) ==
  LET radius == params.diameter \div 2
  IN  CASE params.shape = POLYGON ->
             LET sides == Max(3, params.polygonSides)
             IN  [ i \in 1..sides |->
                     LET theta == ((i - 1) * TwoPi) \div sides
                         x == Scaled(radius, Cos(theta))
                         y == Scaled(radius, Sin(theta))
                     IN  IF i = 1 THEN moveTo(x, y) ELSE lineTo(x, y) ]
                 \o << closePath >>
        [] params.shape = FLUTED ->
             LET flutes == Max(3, params.fluteCount)
                 depth  == (radius * 15) \div 100
             IN  [ i \in 1..(steps + 1) |->
                     LET theta == ((i - 1) * TwoPi) \div steps
                         r == radius - Scaled(depth, Cos(theta * flutes))
                         x == Scaled(r, Cos(theta))
                         y == Scaled(r, Sin(theta))
                     IN  IF i = 1 THEN moveTo(x, y) ELSE lineTo(x, y) ]
        [] params.shape = DROP ->
             LET tipDist    == (radius * 22) \div 10
                 alpha      == Acos((radius * 1000) \div tipDist)
                 startAngle == HalfPi + alpha
                 endAngle   == HalfPi - alpha
             IN  << absarc(0, 0, radius, startAngle, endAngle + TwoPi, FALSE),
                    lineTo(0, tipDist),
                    closePath >>
        [] params.shape = POINTER ->
             LET nubWidth   == (radius * 4) \div 10
                 nubHeight  == (radius * 13) \div 10
                 angleWidth == Asin(((nubWidth \div 2) * 1000) \div radius)
                 startAngle == HalfPi + angleWidth
                 endAngle   == HalfPi - angleWidth
             IN  << absarc(0, 0, radius, startAngle, endAngle + TwoPi, FALSE),
                    lineTo(nubWidth \div 2, nubHeight),
                    lineTo(0 - (nubWidth \div 2), nubHeight),
                    closePath >>
        [] OTHER ->
             << absarc(0, 0, radius, 0, TwoPi, FALSE) >>

\* the radius every bore is built on
ShaftR(params) == params.shaftDiameter \div 2

\* D-Shaft: where the flat lies and how far it reaches to either side
FlatY(params) == 0 - (params.dFlatSize - ShaftR(params))

XOff(params) ==
  Sqrt(ShaftR(params) * ShaftR(params) - FlatY(params) * FlatY(params))

HolePath(params) ==
  LET shaftR == ShaftR(params)
  IN  CASE params.shaftType = D_SHAFT ->
             LET flatY      == FlatY(params)
                 xOff       == XOff(params)
                 startAngle == Asin((flatY * 1000) \div shaftR)
                 endAngle   == IF IsNaN(startAngle) THEN NaN ELSE Pi - startAngle
             IN  << absarc(0, 0, shaftR, endAngle, startAngle, TRUE),
                    lineTo(xOff, flatY),
                    lineTo(Neg(xOff), flatY),
                    closePath >>
        [] params.shaftType = SPLINED ->
             LET outerR == shaftR
                 innerR == (shaftR * 85) \div 100
             IN  [ k \in 1..(teeth * 2) |->
                     LET i == k - 1
                         theta == 0 - ((i * TwoPi) \div (teeth * 2))
                         r == IF i % 2 = 0 THEN outerR ELSE innerR
                         x == Scaled(r, Cos(theta))
                         y == Scaled(r, Sin(theta))
                     IN  IF i = 0 THEN moveTo(x, y) ELSE lineTo(x, y) ]
                 \o << closePath >>
        [] OTHER ->
             << absarc(0, 0, shaftR, 0, TwoPi, TRUE) >>

KnobShapes(params) ==
  [ shapeSolid  |-> [ outer |-> OuterProfile(params), holes |-> << >> ],
    shapeHollow |-> [ outer |-> OuterProfile(params),
                      holes |-> << HolePath(params) >> ] ]

----------------------------------------------------------------------------
(* KnobMesh: the slice list *)

\* createExtrusion(shape, depth): the profile, its extrusion depth, and the
\* quarter turn about X (in quarter turns) that stands the solid upright.
createExtrusion(shape, depth) ==
  [ shape |-> shape, depth |-> depth, rotateX |-> -1 ]

\* const capHeight = params.hasCap ? Math.min(params.capHeight, totalHeight - 1) : 0
CapHeight(params) ==
  IF params.hasCap THEN Min(params.capHeight, params.height - Mm(1)) ELSE 0

BodyHeight(params) == params.height - CapHeight(params)

\* const shaftDepth = Math.min(params.shaftDepth, totalHeight)
ClampedShaftDepth(params) == Min(params.shaftDepth, params.height)

BodyShaftH_Max(params) == Max(BodyHeight(params), ClampedShaftDepth(params))

\* const bodyShaftH = Math.min(bodyHeight, shaftDepth)
BodyShaftH(params) == Min(BodyHeight(params), ClampedShaftDepth(params))

TopShape_AlwaysSolid(params) == "shapeSolid"

\* params.closedTop ? shapeSolid : shapeHollow
TopShape(params) == IF params.closedTop THEN "shapeSolid" ELSE "shapeHollow"

CapRegions_TopFirst(capHollow, capTop) == capTop \o capHollow

\* the cap regions in the order they are pushed: the shaft zone, then the top
CapRegions(capHollow, capTop) == capHollow \o capTop

KnobSlices(params) ==
  LET totalHeight == params.height
      capHeight   == CapHeight(params)
      bodyHeight  == BodyHeight(params)
      shaftDepth  == ClampedShaftDepth(params)
      bodyShaftH  == BodyShaftH(params)
      bodyHollow  == IF bodyShaftH > 10
                       THEN << [ geo   |-> createExtrusion("shapeHollow", bodyShaftH),
                                 y     |-> 0,
                                 color |-> "#222",
                                 name  |-> "Body_Hollow" ] >>
                       ELSE << >>
      bodySolid   == IF bodyHeight > bodyShaftH + 10
                       THEN << [ geo   |-> createExtrusion(TopShape(params),
                                                           bodyHeight - bodyShaftH),
                                 y     |-> bodyShaftH,
                                 color |-> "#222",
                                 name  |-> "Body_Solid" ] >>
                       ELSE << >>
      capShaftEnd == Min(totalHeight, shaftDepth)
      capShaftH   == Max(0, capShaftEnd - bodyHeight)
      capTopStart == bodyHeight + capShaftH
      capTopH     == totalHeight - capTopStart
      capHollow   == IF capShaftH > 1
                       THEN << [ geo   |-> createExtrusion("shapeHollow", capShaftH),
                                 y     |-> bodyHeight,
                                 color |-> params.capColor,
                                 name  |-> "Cap_Hollow" ] >>
                       ELSE << >>
      capTop      == IF capTopH > 1
                       THEN << [ geo   |-> createExtrusion(TopShape(params), capTopH),
                                 y     |-> capTopStart,
                                 color |-> params.capColor,
                                 name  |-> "Cap_Solid" ] >>
                       ELSE << >>
      capRegions  == IF params.hasCap /\ capHeight > 10
                       THEN CapRegions(capHollow, capTop)
                       ELSE << >>
  IN  bodyHollow \o bodySolid \o capRegions

----------------------------------------------------------------------------
(* types/EnclosureTypes.ts *)

ENCLOSURE_DB ==
  << [ name |-> "1590A",  width |-> Mm(39),  height |-> Mm(31), length |-> Mm(93) ],
     [ name |-> "1590B",  width |-> Mm(60),  height |-> Mm(31), length |-> Mm(112) ],
     [ name |-> "1590BB", width |-> Mm(94),  height |-> Mm(34), length |-> Mm(119) ],
     [ name |-> "1590BS", width |-> Mm(66),  height |-> Mm(41), length |-> Mm(120) ],
     [ name |-> "1590DD", width |-> Mm(119), height |-> Mm(56), length |-> Mm(187) ],
     [ name |-> "1590N1", width |-> Mm(66),  height |-> Mm(40), length |-> Mm(121) ],
     [ name |-> "125B",   width |-> Mm(66),  height |-> Mm(39), length |-> Mm(121) ],
     [ name |-> "1790NS", width |-> Mm(121), height |-> Mm(39), length |-> Mm(145) ] >>

TOP == "Top"

FRONT == "Front"

BACK == "Back"

LEFT == "Left"

RIGHT == "Right"

BOTTOM == "Bottom"

HoleFace == {TOP, FRONT, BACK, LEFT, RIGHT, BOTTOM}

POT == "Potentiometer"

SWITCH_FOOT == "3PDT Foot Switch"

JACK_AUDIO == "1/4\" Audio Jack"

JACK_DC == "DC Power Jack"

LED == "LED Indicator (5mm)"

DEFAULT_ENCLOSURE ==
  [ model         |-> "1590B",
    wallThickness |-> Mm(2),
    holes |->
      << [ id |-> "h1", type |-> SWITCH_FOOT, face |-> TOP,   x |-> 0, y |-> 0 - Mm(30), diameter |-> Mm(12) ],
         [ id |-> "h2", type |-> POT,         face |-> TOP,   x |-> 0, y |-> Mm(20),     diameter |-> Mm(7) ],
         [ id |-> "h3", type |-> JACK_AUDIO,  face |-> RIGHT, x |-> 0, y |-> Mm(10),     diameter |-> Mm(10) ],
         [ id |-> "h4", type |-> JACK_AUDIO,  face |-> LEFT,  x |-> 0, y |-> Mm(10),     diameter |-> Mm(10) ],
         [ id |-> "h5", type |-> JACK_DC,     face |-> BACK,  x |-> 0, y |-> 0,          diameter |-> Mm(12) ],
         [ id |-> "h6", type |-> LED,         face |-> TOP,   x |-> 0, y |-> Mm(35),     diameter |-> Mm(5) ] >> ]

\* ENCLOSURE_DB.find(e => e.name === params.model) || ENCLOSURE_DB[1]
Specs(model) ==
  IF \E i \in 1..Len(ENCLOSURE_DB) : ENCLOSURE_DB[i].name = model
    THEN ENCLOSURE_DB[CHOOSE i \in 1..Len(ENCLOSURE_DB) :
                        /\ ENCLOSURE_DB[i].name = model
                        /\ \A j \in 1..(i - 1) : ENCLOSURE_DB[j].name # model]
    ELSE ENCLOSURE_DB[2]

----------------------------------------------------------------------------
(* EnclosureMesh: placing the drill bores.  Positions are <<x, y, z>>,    *)
(* rotations are Euler angles <<x, y, z>> in quarter turns.               *)

getDrillTransform_Uncentred(specs, face, x, y) ==
  LET W == specs.width
      H == specs.height
      L == specs.length
  IN  CASE face = TOP    -> [ pos |-> <<x, H, y>>,                rot |-> <<0, 0, 0>> ]
        [] face = BOTTOM -> [ pos |-> <<x, 0, y>>,                rot |-> <<2, 0, 0>> ]
        [] face = RIGHT  -> [ pos |-> <<W \div 2, y, x>>,         rot |-> <<0, 0, -1>> ]
        [] face = LEFT   -> [ pos |-> <<0 - (W \div 2), y, x>>,   rot |-> <<0, 0, 1>> ]
        [] face = FRONT  -> [ pos |-> <<x, y, L \div 2>>,         rot |-> <<1, 0, 0>> ]
        [] OTHER         -> [ pos |-> <<x, y, 0 - (L \div 2)>>,   rot |-> <<-1, 0, 0>> ]

getDrillTransform(specs, face, x, y) ==
  LET W == specs.width
      H == specs.height
      L == specs.length
  IN  CASE face = TOP    -> [ pos |-> <<x, H, y>>,                          rot |-> <<0, 0, 0>> ]
        [] face = BOTTOM -> [ pos |-> <<x, 0, y>>,                          rot |-> <<2, 0, 0>> ]
        [] face = RIGHT  -> [ pos |-> <<W \div 2, H \div 2 + y, x>>,        rot |-> <<0, 0, -1>> ]
        [] face = LEFT   -> [ pos |-> <<0 - (W \div 2), H \div 2 + y, x>>,  rot |-> <<0, 0, 1>> ]
        [] face = FRONT  -> [ pos |-> <<x, H \div 2 + y, L \div 2>>,        rot |-> <<1, 0, 0>> ]
        [] OTHER         -> [ pos |-> <<x, H \div 2 + y, 0 - (L \div 2)>>,  rot |-> <<-1, 0, 0>> ]

\* one <Subtraction> per hole: the transform with pos.y -= H/2, and a
\* cylinder of radius diameter/2 and height 40 along its local Y axis
DrillSubtraction(specs, hole) ==
  LET t == getDrillTransform(specs, hole.face, hole.x, hole.y)
  IN  [ key      |-> hole.id,
        position |-> << t.pos[1], t.pos[2] - (specs.height \div 2), t.pos[3] >>,
        rotation |-> t.rot,
        radius   |-> hole.diameter \div 2,
        height   |-> Mm(40) ]

DrillSubtractions(params) ==
  [ i \in 1..Len(params.holes) |-> DrillSubtraction(Specs(params.model), params.holes[i]) ]

\* params.wallThickness || 1.5
THICK(params) ==
  IF params.wallThickness \in {0, NaN, Undefined} THEN 150
  ELSE params.wallThickness

cornerPosts_NoInset(specs, thick) ==
  LET x == specs.width \div 2
      z == specs.length \div 2
  IN  << [ x |-> x, z |-> z ], [ x |-> 0 - x, z |-> z ],
         [ x |-> x, z |-> 0 - z ], [ x |-> 0 - x, z |-> 0 - z ] >>

cornerPosts(specs, thick) ==
  LET inset == Mm(4) + thick
      x     == (specs.width \div 2) - inset
      z     == (specs.length \div 2) - inset
  IN  << [ x |-> x, z |-> z ], [ x |-> 0 - x, z |-> z ],
         [ x |-> x, z |-> 0 - z ], [ x |-> 0 - x, z |-> 0 - z ] >>

\* one <Addition> per corner post: a cylinder of radius 3 and height H
PostAdditions(params) ==
  LET specs == Specs(params.model)
      cp    == cornerPosts(specs, THICK(params))
  IN  [ i \in 1..Len(cp) |->
          [ position |-> << cp[i].x, 0, cp[i].z >>,
            radius   |-> Mm(3),
            height   |-> specs.height ] ]

\* one <Subtraction> per corner post: a cylinder of radius 1.5 and height H+5
ScrewSubtractions(params) ==
  LET specs == Specs(params.model)
      cp    == cornerPosts(specs, THICK(params))
  IN  [ i \in 1..Len(cp) |->
          [ position |-> << cp[i].x, 0 - THICK(params), cp[i].z >>,
            radius   |-> 150,
            height   |-> specs.height + Mm(5) ] ]

----------------------------------------------------------------------------
(* services/exportService.ts: the drill template, as the list of the SVG  *)
(* elements it writes (sheet coordinates in hundredths of a unit)         *)

pad == Mm(20)

cx == Mm(300)

cy == Mm(300)

TopRect(specs) ==
  [ x |-> cx - (specs.width \div 2), y |-> cy - (specs.length \div 2),
    w |-> specs.width, h |-> specs.length ]

RightRect(specs) ==
  [ x |-> TopRect(specs).x + specs.width + pad, y |-> TopRect(specs).y,
    w |-> specs.height, h |-> specs.length ]

LeftRect(specs) ==
  [ x |-> TopRect(specs).x - pad - specs.height, y |-> TopRect(specs).y,
    w |-> specs.height, h |-> specs.length ]

BackRect(specs) ==
  [ x |-> TopRect(specs).x, y |-> TopRect(specs).y - pad - specs.height,
    w |-> specs.width, h |-> specs.height ]

FrontRect(specs) ==
  [ x |-> TopRect(specs).x, y |-> TopRect(specs).y + specs.length + pad,
    w |-> specs.width, h |-> specs.height ]

SvgRect(r) == [ tag |-> "rect", x |-> r.x, y |-> r.y, w |-> r.w, h |-> r.h ]

SvgText(x, y, text) == [ tag |-> "text", x |-> x, y |-> y, text |-> text ]

SvgLine(x1, y1, x2, y2) ==
  [ tag |-> "line", x1 |-> x1, y1 |-> y1, x2 |-> x2, y2 |-> y2 ]

SvgCircle(x, y, r) == [ tag |-> "circle", cx |-> x, cy |-> y, r |-> r ]

HolePoint_BackNotInverted(faceEnum, fcx, fcy, h) ==
  CASE faceEnum = TOP   -> << fcx + h.x, fcy + h.y >>
    [] faceEnum = RIGHT -> << fcx + h.y, fcy + h.x >>
    [] faceEnum = LEFT  -> << fcx - h.y, fcy + h.x >>
    [] faceEnum = FRONT -> << fcx + h.x, fcy + h.y >>
    [] faceEnum = BACK  -> << fcx + h.x, fcy + h.y >>
    [] OTHER            -> << fcx, fcy >>

HolePoint_RightNotSwapped(faceEnum, fcx, fcy, h) ==
  CASE faceEnum = TOP   -> << fcx + h.x, fcy + h.y >>
    [] faceEnum = RIGHT -> << fcx + h.x, fcy + h.y >>
    [] faceEnum = LEFT  -> << fcx - h.y, fcy + h.x >>
    [] faceEnum = FRONT -> << fcx + h.x, fcy + h.y >>
    [] faceEnum = BACK  -> << fcx + h.x, fcy - h.y >>
    [] OTHER            -> << fcx, fcy >>

\* <<hx, hy>>: where a hole of the face is drawn, given the face centre
HolePoint(faceEnum, fcx, fcy, h) ==
  CASE faceEnum = TOP   -> << fcx + h.x, fcy + h.y >>
    [] faceEnum = RIGHT -> << fcx + h.y, fcy + h.x >>
    [] faceEnum = LEFT  -> << fcx - h.y, fcy + h.x >>
    [] faceEnum = FRONT -> << fcx + h.x, fcy + h.y >>
    [] faceEnum = BACK  -> << fcx + h.x, fcy - h.y >>
    [] OTHER            -> << fcx, fcy >>

\* the circle and the crosshair of one hole
DrawHole(faceEnum, fcx, fcy, h) ==
  LET pt == HolePoint(faceEnum, fcx, fcy, h)
      hx == pt[1]
      hy == pt[2]
      r  == h.diameter \div 2
  IN  << SvgCircle(hx, hy, r),
         SvgLine(hx - r, hy, hx + r, hy),
         SvgLine(hx, hy - r, hx, hy + r) >>

RECURSIVE DrawHoles(_, _, _, _)
DrawHoles(faceEnum, fcx, fcy, faceHoles) ==
  IF faceHoles = << >> THEN << >>
  ELSE DrawHole(faceEnum, fcx, fcy, Head(faceHoles))
       \o DrawHoles(faceEnum, fcx, fcy, Tail(faceHoles))

drawFace(params, name, rect, faceEnum) ==
  LET fcx == rect.x + (rect.w \div 2)
      fcy == rect.y + (rect.h \div 2)
      OnFace(h) == h.face = faceEnum
      faceHoles == SelectSeq(params.holes, OnFace)
  IN  << SvgRect(rect),
         SvgText(rect.x, rect.y - Mm(5), name),
         SvgLine(fcx, rect.y, fcx, rect.y + rect.h),
         SvgLine(rect.x, fcy, rect.x + rect.w, fcy) >>
      \o DrawHoles(faceEnum, fcx, fcy, faceHoles)

\* ENCLOSURE_DB.find(e => e.name === params.model) || ENCLOSURE_DB[1]
TemplateSpecs(model) ==
  LET found == { i \in 1..Len(ENCLOSURE_DB) : ENCLOSURE_DB[i].name = model }
  IN  IF found = {} THEN ENCLOSURE_DB[2]
      ELSE ENCLOSURE_DB[CHOOSE i \in found : \A j \in found : i <= j]

generateDrillTemplateSVG(params) ==
  LET specs == TemplateSpecs(params.model)
  IN  << SvgRect([ x |-> 0, y |-> 0, w |-> Mm(600), h |-> Mm(800) ]),
         SvgLine(Mm(50), Mm(50), Mm(150), Mm(50)),
         SvgText(Mm(50), Mm(45), "100mm Scale Check"),
         SvgText(Mm(50), Mm(70), params.model) >>
      \o drawFace(params, "TOP", TopRect(specs), TOP)
      \o drawFace(params, "RIGHT (Input)", RightRect(specs), RIGHT)
      \o drawFace(params, "LEFT (Output)", LeftRect(specs), LEFT)
      \o drawFace(params, "BACK (DC)", BackRect(specs), BACK)
      \o drawFace(params, "FRONT", FrontRect(specs), FRONT)

----------------------------------------------------------------------------
(* App: the knob record and its edits.  KnobMesh recomputes its memoised  *)
(* profiles and slice list in the render that follows every change of the *)
(* record.                                                                *)

\* values an edit, an AI reply or a loaded project can give the fields that
\* decide the slice list
SliceFieldValues ==
  [ height     |-> {50, Mm(5), Mm(18)},
    shaftDepth |-> {30, Mm(14), Mm(17), Mm(18)},
    capHeight  |-> {25, Mm(3), Mm(9)},
    hasCap     |-> BOOLEAN,
    closedTop  |-> BOOLEAN ]

\* and the fields that decide the profiles
ProfileFieldValues ==
  [ shape         |-> KnobShape,
    shaftType     |-> ShaftType,
    shaftDiameter |-> {Mm(2), Mm(6)},
    dFlatSize     |-> {Mm(1), 450},
    holeTolerance |-> {0, 15},
    pointerIndent |-> BOOLEAN ]

\* partial records the AI collaborator may return
AiSliceReplies ==
  { [ height |-> h, shaftDepth |-> d, hasCap |-> c ] :
      h \in SliceFieldValues.height, d \in {30, Mm(17)}, c \in BOOLEAN }

AiProfileReplies ==
  { [ shape |-> s, shaftType |-> t ] : s \in {FLUTED, DROP}, t \in ShaftType }

\* { ...prev, ...newParams }
Merge(prev, newParams) ==
  [ k \in DOMAIN prev |->
      IF k \in DOMAIN newParams THEN newParams[k] ELSE prev[k] ]

\* keys of the slice meshes, by index
SliceKeys == << "slice0", "slice1", "slice2", "slice3" >>

\* the meshes KnobMesh returns for a record, each with its React key: the
\* slices, the indicator and the skirt
KnobMeshObjects(params) ==
  { [ key |-> SliceKeys[i], name |-> KnobSlices(params)[i].name ] :
      i \in 1..Len(KnobSlices(params)) }
    \cup ( IF params.pointerIndent /\ params.shape # DROP /\ params.shape # POINTER
             THEN { [ key |-> "Indicator", name |-> "Indicator" ] } ELSE {} )
    \cup ( IF params.skirtHeight > 0
             THEN { [ key |-> "Skirt", name |-> "Skirt" ] } ELSE {} )

\* the indicator mesh, if rendered: a capsule at the top face
IndicatorMesh(params) ==
  IF params.pointerIndent /\ params.shape # DROP /\ params.shape # POINTER
    THEN << [ name     |-> "Indicator",
              position |-> << 0, params.height, params.diameter \div 2 - Mm(2) >>,
              rotation |-> << -1, 0, 0 >> ] >>
    ELSE << >>

\* the skirt mesh, if rendered: a closed cylinderGeometry(radiusTop,
\* radiusBottom, height) centred on its position
SkirtMesh(params) ==
  IF params.skirtHeight > 0
    THEN << [ name         |-> "Skirt",
              position     |-> << 0, params.skirtHeight \div 2, 0 >>,
              radiusTop    |-> params.diameter \div 2,
              radiusBottom |-> params.skirtDiameter \div 2,
              height       |-> params.skirtHeight ] >>
    ELSE << >>

\* the meshes under the group of the enclosure mode
EnclosureObjects ==
  { [ key |-> "Enclosure_Body", name |-> "Enclosure_Body" ],
    [ key |-> "Enclosure_Lid", name |-> "Enclosure_Lid" ] }

\* no file exported yet, for each export type; a file is the meshes written,
\* with the mode it was exported in and the objects invisible beforehand
NoExports ==
  [ type \in {"all", "body", "cap"} |->
      [ mode |-> "none", invisible |-> {}, meshes |-> {} ] ]

\* an object keeps its visible flag while it stays mounted: a mesh whose key
\* is no longer returned is removed, and a change of mode unmounts KnobMesh
KnobMeshScene(newMode, newParams) ==
  hidden' = IF newMode # appMode THEN {}
            ELSE { k \in hidden : \E o \in KnobMeshObjects(newParams) : o.key = k }

\* setKnobParams and the render of KnobMesh that follows it
setKnobParams(params) ==
  /\ knobParams' = params
  /\ shapes' = KnobShapes(params)
  /\ slices' = KnobSlices(params)
  /\ stl' = NoExports

Render(params) ==
  /\ setKnobParams(params)
  /\ KnobMeshScene(appMode, params)
  /\ UNCHANGED enclosureVars
  /\ UNCHANGED clampVars
  /\ UNCHANGED exportVars
  /\ UNCHANGED geoVars
  /\ UNCHANGED updateVars
  /\ UNCHANGED appVars

handleUpdateKnobParam(key, value) ==
  Render([knobParams EXCEPT ![key] = value])

handleAiGenerate(newParams) ==
  Render(Merge(knobParams, newParams))

confirmReset ==
  Render(DEFAULT_KNOB)

\* the dependency list of the clamp effect
ClampDeps(params) ==
  << params.height, params.shaftDepth, params.capHeight, params.hasCap >>

\* the effect is run after a render whose dependencies differ from those of
\* the render before
ClampPending == ClampDeps(knobParams) # clampDeps

\* The clamp effect.  Both calls of handleUpdateKnobParam spread the
\* knobParams of the render the effect belongs to, and the two setKnobParams
\* are applied as one batch: the later one decides the next record.
clampEffect ==
  /\ ClampPending
  /\ LET deep     == knobParams.shaftDepth > knobParams.height
         tall     == knobParams.hasCap /\ 2 * knobParams.capHeight > knobParams.height
         clamped1 == [knobParams EXCEPT !.shaftDepth = knobParams.height]
         clamped2 == [knobParams EXCEPT
                        !.capHeight = Max(Mm(1), knobParams.height \div 2)]
         next     == IF tall THEN clamped2
                     ELSE IF deep THEN clamped1
                     ELSE knobParams
     IN  setKnobParams(next) /\ KnobMeshScene(appMode, next)
  /\ clampDeps' = ClampDeps(knobParams)
  /\ UNCHANGED enclosureVars
  /\ UNCHANGED exportVars
  /\ UNCHANGED geoVars
  /\ UNCHANGED updateVars
  /\ UNCHANGED appVars

\* slider positions of the fields the clamp effect depends on (height 5 to
\* 50, shaft depth 5 to height, cap height 1 to height / 2)
ClampFieldValues ==
  [ height     |-> {Mm(5), Mm(18)},
    shaftDepth |-> {Mm(5), Mm(14)},
    capHeight  |-> {Mm(1), Mm(12)},
    hasCap     |-> BOOLEAN ]

\* partial records the AI collaborator may return for those fields
AiClampReplies ==
  { [ height |-> h, shaftDepth |-> d, capHeight |-> c, hasCap |-> b ] :
      h \in {Mm(1), Mm(10)}, d \in {Mm(8), Mm(12)}, c \in {Mm(3), Mm(6)},
      b \in BOOLEAN }

----------------------------------------------------------------------------
(* App: the enclosure record and its edits.  EnclosureMesh places the     *)
(* drill bores anew in the render that follows every change; the template *)
(* is written by handleExportSVG and handed to the download.              *)

\* the most holes the enclosure is given
MaxHoles == 6

\* the holes the edits address, and the ids Math.random may give a new hole
EditedIds == {"h1", "n1"}

NewIds == {"n1"}

ModelNames == {"1590A", "1590B", "1590DD", "Custom"}

AddableTypes == {POT, LED}

HoleFieldValues ==
  [ face |-> HoleFace,
    x    |-> {0, Mm(10)},
    y    |-> {0 - Mm(30), Mm(10)} ]

\* setEnclosureParams and the render of EnclosureMesh that follows it
setEnclosureParams(params) ==
  /\ enclosureParams' = params
  /\ drills' = DrillSubtractions(params)
  /\ posts' = PostAdditions(params)
  /\ screws' = ScrewSubtractions(params)
  /\ svg' = << >>

RenderEnclosure(params) ==
  /\ setEnclosureParams(params)
  /\ UNCHANGED knobVars
  /\ UNCHANGED clampVars
  /\ UNCHANGED exportVars
  /\ UNCHANGED geoVars
  /\ UNCHANGED updateVars
  /\ UNCHANGED appVars

HasHole(id) ==
  \E i \in 1..Len(enclosureParams.holes) : enclosureParams.holes[i].id = id

handleUpdateEnclosureParam(key, value) ==
  RenderEnclosure([enclosureParams EXCEPT ![key] = value])

DefaultDiameter(type) ==
  IF type = POT THEN Mm(7)
  ELSE IF type = SWITCH_FOOT THEN Mm(12)
  ELSE IF type = JACK_AUDIO THEN Mm(10)
  ELSE Mm(12)

handleAddHole(type, id) ==
  /\ Len(enclosureParams.holes) < MaxHoles
  /\ LET newHole == [ id |-> id, type |-> type, face |-> TOP, x |-> 0, y |-> 0,
                      diameter |-> DefaultDiameter(type) ]
     IN  RenderEnclosure([enclosureParams EXCEPT
                            !.holes = Append(enclosureParams.holes, newHole)])

handleRemoveHole(id) ==
  /\ HasHole(id)
  /\ LET Keep(h) == h.id # id
     IN  RenderEnclosure([enclosureParams EXCEPT
                            !.holes = SelectSeq(enclosureParams.holes, Keep)])

handleUpdateHole(id, key, value) ==
  /\ HasHole(id)
  /\ RenderEnclosure([enclosureParams EXCEPT
       !.holes = [ i \in 1..Len(enclosureParams.holes) |->
                     IF enclosureParams.holes[i].id = id
                       THEN [enclosureParams.holes[i] EXCEPT ![key] = value]
                       ELSE enclosureParams.holes[i] ]])

handleExportSVG ==
  /\ svg' = generateDrillTemplateSVG(enclosureParams)
  /\ UNCHANGED <<enclosureParams, drills, posts, screws>>
  /\ UNCHANGED knobVars
  /\ UNCHANGED clampVars
  /\ UNCHANGED exportVars
  /\ UNCHANGED geoVars
  /\ UNCHANGED updateVars
  /\ UNCHANGED appVars

----------------------------------------------------------------------------
(* App: the boundary operations.  Absent values (no timer, no field in a   *)
(* project file) are the empty sequence, present ones a one-element        *)
(* sequence.                                                               *)

showToast(message, type) ==
  toast' = [ message |-> message, type |-> type, id |-> 1 - toast.id ]

\* clearTimeout, then setTimeout of the callback that closes over params,
\* mode and the two indices of the render addToHistory was made in
addToHistory(params, mode) ==
  historyTimeoutRef' = << [ params |-> params, mode |-> mode,
                            knobHistoryIndex |-> knobHistoryIndex,
                            enclosureHistoryIndex |-> enclosureHistoryIndex ] >>

\* slice(0, index + 1), push, and shift when longer than 50
Pushed(history, index, params) ==
  LET newHistory == Append(SubSeq(history, 1, Min(index + 1, Len(history))), params)
  IN  IF Len(newHistory) > 50 THEN Tail(newHistory) ELSE newHistory

\* the most snapshots a history is let grow to
MaxHistory == 2

\* the callback of the 500 ms debounce timer
historyTimeout ==
  /\ historyTimeoutRef # << >>
  /\ LET t == historyTimeoutRef[1]
     IN  IF t.mode = "knob"
           THEN /\ Len(Pushed(knobHistory, t.knobHistoryIndex, t.params)) <= MaxHistory
                /\ knobHistory' = Pushed(knobHistory, t.knobHistoryIndex, t.params)
                /\ knobHistoryIndex' = Min(knobHistoryIndex + 1, 49)
                /\ UNCHANGED <<enclosureHistory, enclosureHistoryIndex>>
           ELSE /\ Len(Pushed(enclosureHistory, t.enclosureHistoryIndex, t.params))
                   <= MaxHistory
                /\ enclosureHistory' = Pushed(enclosureHistory, t.enclosureHistoryIndex, t.params)
                /\ enclosureHistoryIndex' = Min(enclosureHistoryIndex + 1, 49)
                /\ UNCHANGED <<knobHistory, knobHistoryIndex>>
  /\ historyTimeoutRef' = << >>
  /\ UNCHANGED <<appMode, isGenerating, aiCall, toast>>
  /\ UNCHANGED <<knobVars, enclosureVars, clampVars, exportVars, geoVars, updateVars>>

setAppMode(mode) ==
  /\ appMode' = mode
  /\ KnobMeshScene(mode, knobParams)
  /\ UNCHANGED <<knobHistory, knobHistoryIndex, enclosureHistory,
                 enclosureHistoryIndex, historyTimeoutRef, isGenerating, aiCall,
                 toast>>
  /\ UNCHANGED <<knobRecordVars, enclosureVars, clampVars, exportVars, geoVars, updateVars>>

\* handleUpdateKnobParam with its call of addToHistory
updateKnobParamAndHistory(key, value) ==
  LET newParams == [knobParams EXCEPT ![key] = value]
  IN  /\ setKnobParams(newParams)
      /\ KnobMeshScene(appMode, newParams)
      /\ addToHistory(newParams, "knob")
      /\ UNCHANGED <<appMode, knobHistory, knobHistoryIndex, enclosureHistory,
                     enclosureHistoryIndex, isGenerating, aiCall, toast>>
      /\ UNCHANGED <<enclosureVars, clampVars, exportVars, geoVars, updateVars>>

\* handleAiGenerate up to its await: in knob mode the request is sent; in
\* enclosure mode the handler runs to its end at once
handleAiGenerateCalled ==
  /\ aiCall.state = "idle"
  /\ IF appMode = "knob"
       THEN /\ isGenerating' = TRUE
            /\ aiCall' = [ state |-> "awaiting", value |-> << >>, cause |-> "" ]
            /\ UNCHANGED toast
       ELSE /\ showToast("Enclosure AI generation coming soon!", "info")
            /\ isGenerating' = FALSE
            /\ UNCHANGED aiCall
  /\ UNCHANGED <<appMode, knobHistory, knobHistoryIndex, enclosureHistory,
                 enclosureHistoryIndex, historyTimeoutRef>>
  /\ UNCHANGED <<knobVars, enclosureVars, clampVars, exportVars, geoVars, updateVars>>

\* why generateKnobParams rejects
RejectCauses ==
  { "Electron IPC Error", "API Key is required for mobile/web usage.",
    "Failed to parse AI response", "JSON.parse" }

\* the promise of generateKnobParams is fulfilled with what the reply parses
\* to, or rejected
generateKnobParams(outcome) ==
  /\ aiCall.state = "awaiting"
  /\ aiCall' = outcome
  /\ UNCHANGED <<appMode, knobHistory, knobHistoryIndex, enclosureHistory,
                 enclosureHistoryIndex, historyTimeoutRef, isGenerating, toast>>
  /\ UNCHANGED <<knobVars, enclosureVars, clampVars, exportVars, geoVars, updateVars>>

handleAiGenerateResumed_NoFinally ==
  /\ aiCall.state \in {"fulfilled", "rejected"}
  /\ IF aiCall.state = "fulfilled"
       THEN /\ setKnobParams(Merge(knobParams, aiCall.value[1]))
            /\ KnobMeshScene(appMode, Merge(knobParams, aiCall.value[1]))
            /\ isGenerating' = FALSE
            /\ UNCHANGED toast
       ELSE /\ showToast("Failed to generate parameters.", "error")
            /\ UNCHANGED isGenerating
            /\ UNCHANGED knobVars
  /\ aiCall' = [ state |-> "idle", value |-> << >>, cause |-> "" ]
  /\ UNCHANGED <<appMode, knobHistory, knobHistoryIndex, enclosureHistory,
                 enclosureHistoryIndex, historyTimeoutRef>>
  /\ UNCHANGED <<enclosureVars, clampVars, exportVars, geoVars, updateVars>>

\* handleAiGenerate after its await: the merge, or the catch block, and the
\* finally block
handleAiGenerateResumed ==
  /\ aiCall.state \in {"fulfilled", "rejected"}
  /\ IF aiCall.state = "fulfilled"
       THEN /\ setKnobParams(Merge(knobParams, aiCall.value[1]))
            /\ KnobMeshScene(appMode, Merge(knobParams, aiCall.value[1]))
            /\ UNCHANGED toast
       ELSE /\ showToast("Failed to generate parameters.", "error")
            /\ UNCHANGED knobVars
  /\ isGenerating' = FALSE
  /\ aiCall' = [ state |-> "idle", value |-> << >>, cause |-> "" ]
  /\ UNCHANGED <<appMode, knobHistory, knobHistoryIndex, enclosureHistory,
                 enclosureHistoryIndex, historyTimeoutRef>>
  /\ UNCHANGED <<enclosureVars, clampVars, exportVars, geoVars, updateVars>>

\* reader.onload of handleLoadProject.  A file is the text JSON.parse throws
\* on, the text "null", or a project with some of mode, knob and enclosure.
handleLoadProject(file) ==
  IF file.parses /\ ~file.isNull
    THEN /\ appMode' = IF file.mode # << >> THEN file.mode[1] ELSE appMode
         /\ KnobMeshScene(IF file.mode # << >> THEN file.mode[1] ELSE appMode,
                          IF file.knob # << >> THEN file.knob[1] ELSE knobParams)
         /\ IF file.knob # << >>
              THEN /\ setKnobParams(file.knob[1])
                   /\ knobHistory' = << file.knob[1] >>
                   /\ knobHistoryIndex' = 0
              ELSE UNCHANGED <<knobRecordVars, knobHistory, knobHistoryIndex>>
         /\ IF file.enclosure # << >>
              THEN /\ setEnclosureParams(file.enclosure[1])
                   /\ enclosureHistory' = << file.enclosure[1] >>
                   /\ enclosureHistoryIndex' = 0
              ELSE UNCHANGED <<enclosureVars, enclosureHistory, enclosureHistoryIndex>>
         /\ showToast("Project loaded successfully!", "success")
         /\ UNCHANGED <<historyTimeoutRef, isGenerating, aiCall>>
         /\ UNCHANGED clampVars
         /\ UNCHANGED exportVars
         /\ UNCHANGED geoVars
         /\ UNCHANGED updateVars
    ELSE /\ showToast("Failed to load project. Invalid file format.", "error")
         /\ UNCHANGED <<appMode, knobHistory, knobHistoryIndex, enclosureHistory,
                        enclosureHistoryIndex, historyTimeoutRef, isGenerating,
                        aiCall>>
         /\ UNCHANGED <<knobVars, enclosureVars, clampVars, exportVars, geoVars, updateVars>>

\* files the user may pick
ProjectFiles ==
  { [ parses |-> FALSE, isNull |-> FALSE, mode |-> << >>, knob |-> << >>,
      enclosure |-> << >> ],
    [ parses |-> TRUE, isNull |-> TRUE, mode |-> << >>, knob |-> << >>,
      enclosure |-> << >> ],
    [ parses |-> TRUE, isNull |-> FALSE, mode |-> << "enclosure" >>,
      knob |-> << >>,
      enclosure |-> << [DEFAULT_ENCLOSURE EXCEPT !.model = "1590A"] >> ],
    [ parses |-> TRUE, isNull |-> FALSE, mode |-> << >>,
      knob |-> << [DEFAULT_KNOB EXCEPT !.shape = POLYGON] >>,
      enclosure |-> << >> ] }

\* the edit made between the boundary operations: opening the top
TopEdits == {FALSE}

\* what the request may settle to
AiOutcomes ==
  { [ state |-> "rejected", value |-> << >>, cause |-> c ] : c \in RejectCauses }
    \cup { [ state |-> "fulfilled", value |-> << [ shape |-> FLUTED ] >>,
             cause |-> "" ] }

NextBoundary ==
  \/ \E mode \in {"knob", "enclosure"} : setAppMode(mode)
  \/ \E value \in TopEdits : updateKnobParamAndHistory("closedTop", value)
  \/ historyTimeout
  \/ handleAiGenerateCalled
  \/ \E outcome \in AiOutcomes : generateKnobParams(outcome)
  \/ handleAiGenerateResumed
  \/ \E file \in ProjectFiles : handleLoadProject(file)

----------------------------------------------------------------------------
(* App: undo, redo, reset and presets.  A snapshot read past the end of a  *)
(* history is undefined, and the render of undefined parameters throws; a  *)
(* handler that would do so takes no step here.                            *)

\* handleUpdateEnclosureParam with its call of addToHistory
updateEnclosureParamAndHistory(key, value) ==
  LET newParams == [enclosureParams EXCEPT ![key] = value]
  IN  /\ setEnclosureParams(newParams)
      /\ addToHistory(newParams, "enclosure")
      /\ UNCHANGED <<appMode, knobHistory, knobHistoryIndex, enclosureHistory,
                     enclosureHistoryIndex, isGenerating, aiCall, toast>>
      /\ UNCHANGED <<knobVars, clampVars, exportVars, geoVars, updateVars>>

\* show the snapshot at newIndex of the history of the current mode
showSnapshot(newIndex, message) ==
  \/ /\ appMode = "knob"
     /\ newIndex + 1 \in 1..Len(knobHistory)
     /\ knobHistoryIndex' = newIndex
     /\ setKnobParams(knobHistory[newIndex + 1])
     /\ KnobMeshScene(appMode, knobHistory[newIndex + 1])
     /\ showToast(message, "info")
     /\ UNCHANGED <<appMode, knobHistory, enclosureHistory, enclosureHistoryIndex,
                    historyTimeoutRef, isGenerating, aiCall>>
     /\ UNCHANGED <<enclosureVars, clampVars, exportVars, geoVars, updateVars>>
  \/ /\ appMode = "enclosure"
     /\ newIndex + 1 \in 1..Len(enclosureHistory)
     /\ enclosureHistoryIndex' = newIndex
     /\ setEnclosureParams(enclosureHistory[newIndex + 1])
     /\ showToast(message, "info")
     /\ UNCHANGED <<appMode, knobHistory, knobHistoryIndex, enclosureHistory,
                    historyTimeoutRef, isGenerating, aiCall>>
     /\ UNCHANGED <<knobVars, clampVars, exportVars, geoVars, updateVars>>

\* the index of the history of the current mode
HistoryIndex == IF appMode = "knob" THEN knobHistoryIndex ELSE enclosureHistoryIndex

HistoryLength == IF appMode = "knob" THEN Len(knobHistory) ELSE Len(enclosureHistory)

handleUndo ==
  /\ HistoryIndex > 0
  /\ showSnapshot(HistoryIndex - 1, "Undo")

handleRedo ==
  /\ HistoryIndex < HistoryLength - 1
  /\ showSnapshot(HistoryIndex + 1, "Redo")

\* confirmReset with the histories
confirmResetMode_ClearsTimer ==
  /\ IF appMode = "knob"
       THEN /\ setKnobParams(DEFAULT_KNOB)
            /\ KnobMeshScene(appMode, DEFAULT_KNOB)
            /\ knobHistory' = << DEFAULT_KNOB >>
            /\ knobHistoryIndex' = 0
            /\ UNCHANGED <<enclosureVars, enclosureHistory, enclosureHistoryIndex>>
       ELSE /\ setEnclosureParams(DEFAULT_ENCLOSURE)
            /\ enclosureHistory' = << DEFAULT_ENCLOSURE >>
            /\ enclosureHistoryIndex' = 0
            /\ UNCHANGED <<knobVars, knobHistory, knobHistoryIndex>>
  /\ showToast("Reset to defaults", "success")
  /\ historyTimeoutRef' = << >>
  /\ UNCHANGED <<appMode, isGenerating, aiCall>>
  /\ UNCHANGED <<clampVars, exportVars, geoVars, updateVars>>

confirmResetMode ==
  /\ IF appMode = "knob"
       THEN /\ setKnobParams(DEFAULT_KNOB)
            /\ KnobMeshScene(appMode, DEFAULT_KNOB)
            /\ knobHistory' = << DEFAULT_KNOB >>
            /\ knobHistoryIndex' = 0
            /\ UNCHANGED <<enclosureVars, enclosureHistory, enclosureHistoryIndex>>
       ELSE /\ setEnclosureParams(DEFAULT_ENCLOSURE)
            /\ enclosureHistory' = << DEFAULT_ENCLOSURE >>
            /\ enclosureHistoryIndex' = 0
            /\ UNCHANGED <<knobVars, knobHistory, knobHistoryIndex>>
  /\ showToast("Reset to defaults", "success")
  /\ UNCHANGED <<appMode, historyTimeoutRef, isGenerating, aiCall>>
  /\ UNCHANGED <<clampVars, exportVars, geoVars, updateVars>>

\* the records of KNOB_PRESETS offered by the preset select
KNOB_PRESETS == << [ name |-> "Fluted", params |-> [DEFAULT_KNOB EXCEPT !.shape = FLUTED] ] >>

\* onChange of the preset select (shown in knob mode)
presetOnChange(name) ==
  /\ appMode = "knob"
  /\ \E i \in 1..Len(KNOB_PRESETS) :
       /\ KNOB_PRESETS[i].name = name
       /\ setKnobParams(KNOB_PRESETS[i].params)
       /\ KnobMeshScene(appMode, KNOB_PRESETS[i].params)
       /\ knobHistory' = << KNOB_PRESETS[i].params >>
       /\ knobHistoryIndex' = 0
  /\ showToast("Loaded preset", "success")
  /\ UNCHANGED <<appMode, enclosureHistory, enclosureHistoryIndex,
                 historyTimeoutRef, isGenerating, aiCall>>
  /\ UNCHANGED <<enclosureVars, clampVars, exportVars, geoVars, updateVars>>

\* the edits of the history model: the top of the knob, the enclosure model
KnobEdits == BOOLEAN

EnclosureEdits == {"1590A", "1590B"}

\* a project file with a knob
HistoryFiles ==
  { [ parses |-> TRUE, isNull |-> FALSE, mode |-> << >>,
      knob |-> << [DEFAULT_KNOB EXCEPT !.shape = FLUTED] >>,
      enclosure |-> << >> ] }

\* the history of the knob
NextHistory ==
  \/ \E value \in KnobEdits : updateKnobParamAndHistory("closedTop", value)
  \/ historyTimeout
  \/ handleUndo
  \/ handleRedo
  \/ confirmResetMode
  \/ \E name \in {"Fluted"} : presetOnChange(name)
  \/ \E file \in HistoryFiles : handleLoadProject(file)

\* the controls of a mode are shown in that mode only
knobControl(key, value) ==
  /\ appMode = "knob"
  /\ updateKnobParamAndHistory(key, value)

enclosureControl(key, value) ==
  /\ appMode = "enclosure"
  /\ updateEnclosureParamAndHistory(key, value)

\* the one debounce timer under edits in both modes
NextDebounce ==
  \/ \E mode \in {"knob", "enclosure"} : setAppMode(mode)
  \/ \E value \in KnobEdits : knobControl("closedTop", value)
  \/ \E value \in EnclosureEdits : enclosureControl("model", value)
  \/ historyTimeout

----------------------------------------------------------------------------
(* App: the STL export.  STLExporter.parse is taken to write the meshes    *)
(* under the group whose visible flag is true.                             *)

\* child.name.includes('Cap')
IncludesCap(name) == name \in {"Cap_Hollow", "Cap_Solid"}

\* child.name.includes('Body') || child.name.includes('Skirt')
IncludesBodyOrSkirt(name) ==
  name \in {"Body_Hollow", "Body_Solid", "Enclosure_Body", "Skirt"}

\* the objects the first traverse makes invisible
HiddenFor(type, objects) ==
  IF appMode # "knob" THEN {}
  ELSE IF type = "body" THEN { o.key : o \in { c \in objects : IncludesCap(c.name) } }
  ELSE IF type = "cap"
    THEN { o.key : o \in { c \in objects : IncludesBodyOrSkirt(c.name) } }
  ELSE {}

\* The handler has no await: it runs to its end in one event, and the two
\* setIsExporting are one batch.  exporter.parse returns or throws.
handleExportSTL(type, throws) ==
  LET objects == IF appMode = "knob" THEN KnobMeshObjects(knobParams)
                 ELSE EnclosureObjects
      flags   == IF appMode = "knob" THEN hidden ELSE {}
      during  == flags \cup HiddenFor(type, objects)
      filename == IF appMode = "knob" THEN "knob.stl" ELSE "enclosure.stl"
  IN  /\ IF throws
           THEN /\ hidden' = IF appMode = "knob" THEN during ELSE hidden
                /\ UNCHANGED stl
                /\ showToast("Export failed", "error")
           ELSE /\ hidden' = hidden
                /\ stl' = [stl EXCEPT ![type] =
                             [ mode      |-> appMode,
                               invisible |-> flags,
                               meshes    |->
                                 { o.name : o \in { c \in objects :
                                                      c.key \notin during } } ]]
                /\ showToast(filename \o " exported successfully!", "success")
      /\ isExporting' = FALSE
      /\ UNCHANGED <<knobParams, shapes, slices>>
      /\ UNCHANGED <<appMode, knobHistory, knobHistoryIndex, enclosureHistory,
                     enclosureHistoryIndex, historyTimeoutRef, isGenerating, aiCall>>
      /\ UNCHANGED <<enclosureVars, clampVars, geoVars, updateVars>>

\* edits that add and remove meshes of the knob group
MeshFieldValues ==
  [ hasCap |-> BOOLEAN ]

\* a skirt is given by the AI collaborator only
AiSkirtReplies == { [ skirtHeight |-> Mm(3) ], [ skirtHeight |-> 0 ] }

NextExport ==
  \/ \E mode \in {"knob", "enclosure"} : setAppMode(mode)
  \/ \E key \in DOMAIN MeshFieldValues : \E value \in MeshFieldValues[key] :
       handleUpdateKnobParam(key, value)
  \/ \E newParams \in AiSkirtReplies : handleAiGenerate(newParams)
  \/ \E type \in {"all", "body", "cap"} : \E throws \in BOOLEAN :
       handleExportSTL(type, throws)

----------------------------------------------------------------------------
(* KnobMesh: building and releasing the slice geometries.  A build is one  *)
(* run of the slices memo: it makes one extruded geometry per region.  The *)
(* cleanup of the effect on [slices] is run with the passive effects that  *)
(* follow a commit, and those are flushed before the next event is         *)
(* handled.                                                                *)

\* the most builds a run makes
MaxBuilds == 4

\* the slices memo has run for the record: its geometries are on the meshes
Build(params) ==
  /\ geometries' = Append(geometries, [ regions   |-> Len(KnobSlices(params)),
                                        disposals |-> 0 ])
  /\ meshBuild' = Len(geometries) + 1

CleanupPending == cleanupOf # meshBuild

cleanupEffect_DisposesCurrent ==
  /\ CleanupPending
  /\ geometries' = IF meshBuild = 0 THEN geometries
                   ELSE [geometries EXCEPT ![meshBuild].disposals = @ + 1]
  /\ cleanupOf' = meshBuild
  /\ UNCHANGED <<meshBuild, activeTab>>
  /\ UNCHANGED <<knobVars, enclosureVars, clampVars, exportVars, appVars, updateVars>>

\* the cleanup the previous run of the effect returned: slice.geo.dispose()
\* for each slice of the build it closed over; then the effect runs again
cleanupEffect ==
  /\ CleanupPending
  /\ geometries' = IF cleanupOf = 0 THEN geometries
                   ELSE [geometries EXCEPT ![cleanupOf].disposals = @ + 1]
  /\ cleanupOf' = meshBuild
  /\ UNCHANGED <<meshBuild, activeTab>>
  /\ UNCHANGED <<knobVars, enclosureVars, clampVars, exportVars, appVars, updateVars>>

\* handleUpdateKnobParam and the build of the render that follows it: params
\* is a new object, so both memos run
updateKnobParamAndBuild(key, value) ==
  LET newParams == [knobParams EXCEPT ![key] = value]
  IN  /\ appMode = "knob"
      /\ ~CleanupPending
      /\ Len(geometries) < MaxBuilds
      /\ setKnobParams(newParams)
      /\ KnobMeshScene(appMode, newParams)
      /\ Build(newParams)
      /\ UNCHANGED <<cleanupOf, activeTab>>
      /\ UNCHANGED <<enclosureVars, clampVars, exportVars, appVars, updateVars>>

\* the tab decides isSliceView; the record is the same object, no memo runs
setActiveTab(tab) ==
  /\ ~CleanupPending
  /\ activeTab' = tab
  /\ UNCHANGED <<geometries, meshBuild, cleanupOf>>
  /\ UNCHANGED <<knobVars, enclosureVars, clampVars, exportVars, appVars, updateVars>>

\* the mode button: leaving the knob mode unmounts KnobMesh, entering it
\* mounts a new one, whose memos run
setAppModeAndMount(mode) ==
  /\ ~CleanupPending
  /\ appMode' = mode
  /\ KnobMeshScene(mode, knobParams)
  /\ IF mode = appMode THEN UNCHANGED <<geometries, meshBuild>>
     ELSE IF mode = "knob"
       THEN Len(geometries) < MaxBuilds /\ Build(knobParams)
     ELSE meshBuild' = 0 /\ UNCHANGED geometries
  /\ UNCHANGED <<cleanupOf, activeTab>>
  /\ UNCHANGED <<knobHistory, knobHistoryIndex, enclosureHistory,
                 enclosureHistoryIndex, historyTimeoutRef, isGenerating, aiCall,
                 toast>>
  /\ UNCHANGED <<knobRecordVars, enclosureVars, clampVars, exportVars, updateVars>>

\* edits that change the number of regions
RegionFieldValues ==
  [ hasCap     |-> BOOLEAN,
    shaftDepth |-> {Mm(14), Mm(17)} ]

NextDispose ==
  \/ \E key \in DOMAIN RegionFieldValues : \E value \in RegionFieldValues[key] :
       updateKnobParamAndBuild(key, value)
  \/ \E tab \in {"design", "slicer"} : setActiveTab(tab)
  \/ \E mode \in {"knob", "enclosure"} : setAppModeAndMount(mode)
  \/ cleanupEffect

----------------------------------------------------------------------------
(* The update flow: the main process with its autoUpdater, and the         *)
(* UpdateNotification component.  An event the main process sends is       *)
(* handled by the listener of the component in the same step; events are   *)
(* delivered in the order they are sent.                                   *)

appVarsAll == <<knobVars, enclosureVars, clampVars, exportVars, geoVars, appVars>>

\* the app is running: launched, and quitAndInstall has not been called
Running == build \in {"development", "packaged"} /\ ~autoUpdater.quit

\* the most auto-hide timers pending at once
MaxHideTimers == 2

\* the listeners UpdateNotification registers
onUpdateChecking ==
  /\ updateState' = "checking"
  /\ visible' = TRUE
  /\ UNCHANGED <<updateInfo, progress, error, hideTimers>>

onUpdateAvailable(info) ==
  /\ updateState' = "available"
  /\ updateInfo' = info
  /\ visible' = TRUE
  /\ UNCHANGED <<progress, error, hideTimers>>

onUpdateNotAvailable ==
  /\ updateState' = "idle"
  /\ hideTimers' = hideTimers + 1
  /\ UNCHANGED <<updateInfo, progress, error, visible>>

onUpdateError(err) ==
  /\ updateState' = "error"
  /\ error' = err
  /\ visible' = TRUE
  /\ UNCHANGED <<updateInfo, progress, hideTimers>>

onUpdateDownloadProgress(progressObj) ==
  /\ updateState' = "downloading"
  /\ progress' = progressObj
  /\ visible' = TRUE
  /\ UNCHANGED <<updateInfo, error, hideTimers>>

onUpdateDownloaded(info) ==
  /\ updateState' = "downloaded"
  /\ updateInfo' = info
  /\ visible' = TRUE
  /\ UNCHANGED <<progress, error, hideTimers>>

\* app.whenReady: the check at launch is scheduled in a packaged build only
whenReady(kind) ==
  /\ build = "unlaunched"
  /\ build' = kind
  /\ autoCheckTimer' = (kind = "packaged")
  /\ UNCHANGED autoUpdater
  /\ UNCHANGED notifierVars
  /\ UNCHANGED appVarsAll

\* the timer of the check at launch: autoUpdater.checkForUpdates(), which
\* emits checking-for-update
autoCheckTimeout ==
  /\ Running
  /\ autoCheckTimer
  /\ autoCheckTimer' = FALSE
  /\ IF autoUpdater.phase = "idle"
       THEN /\ autoUpdater' = [autoUpdater EXCEPT !.phase = "checking"]
            /\ onUpdateChecking
       ELSE UNCHANGED <<autoUpdater, notifierVars>>
  /\ UNCHANGED build
  /\ UNCHANGED appVarsAll

\* the button 'Check Updates' (shown when the notification is hidden) and
\* 'Try Again' (shown on an error).  The check-for-updates handler of the
\* main process returns at once in a development build.
handleCheckNow ==
  /\ Running
  /\ ~visible \/ updateState = "error"
  /\ updateState' = "checking"
  /\ visible' = TRUE
  /\ autoUpdater' = IF build = "packaged" /\ autoUpdater.phase = "idle"
                      THEN [autoUpdater EXCEPT !.phase = "checking"]
                      ELSE autoUpdater
  /\ UNCHANGED <<updateInfo, progress, error, hideTimers>>
  /\ UNCHANGED <<build, autoCheckTimer>>
  /\ UNCHANGED appVarsAll

\* autoUpdater.on('update-available')
updateAvailable ==
  /\ Running
  /\ autoUpdater.phase = "checking"
  /\ autoUpdater' = [autoUpdater EXCEPT !.phase = "idle", !.available = TRUE]
  /\ onUpdateAvailable("1.0.1")
  /\ UNCHANGED <<build, autoCheckTimer>>
  /\ UNCHANGED appVarsAll

\* autoUpdater.on('update-not-available')
updateNotAvailable ==
  /\ Running
  /\ autoUpdater.phase = "checking"
  /\ hideTimers < MaxHideTimers
  /\ autoUpdater' = [autoUpdater EXCEPT !.phase = "idle"]
  /\ onUpdateNotAvailable
  /\ UNCHANGED <<build, autoCheckTimer>>
  /\ UNCHANGED appVarsAll

\* autoUpdater.on('error'), from a check or a download
updaterError ==
  /\ Running
  /\ autoUpdater.phase \in {"checking", "downloading"}
  /\ autoUpdater' = [autoUpdater EXCEPT !.phase = "idle"]
  /\ onUpdateError("Update failed")
  /\ UNCHANGED <<build, autoCheckTimer>>
  /\ UNCHANGED appVarsAll

\* the button 'Download Update', shown in state 'available'
handleDownload ==
  /\ Running
  /\ visible /\ updateState = "available" /\ updateInfo # "null"
  /\ updateState' = "downloading"
  /\ autoUpdater' = [autoUpdater EXCEPT !.phase = "downloading"]
  /\ UNCHANGED <<updateInfo, progress, error, visible, hideTimers>>
  /\ UNCHANGED <<build, autoCheckTimer>>
  /\ UNCHANGED appVarsAll

\* autoUpdater.on('download-progress')
downloadProgress ==
  /\ Running
  /\ autoUpdater.phase = "downloading"
  /\ onUpdateDownloadProgress("50%")
  /\ UNCHANGED mainVars
  /\ UNCHANGED appVarsAll

\* autoUpdater.on('update-downloaded')
updateDownloaded ==
  /\ Running
  /\ autoUpdater.phase = "downloading"
  /\ autoUpdater' = [autoUpdater EXCEPT !.phase = "idle", !.downloaded = TRUE]
  /\ onUpdateDownloaded("1.0.1")
  /\ UNCHANGED <<build, autoCheckTimer>>
  /\ UNCHANGED appVarsAll

handleInstall_ShownWhenAvailable ==
  /\ Running
  /\ visible /\ updateState \in {"available", "downloaded"} /\ updateInfo # "null"
  /\ autoUpdater' = [autoUpdater EXCEPT !.quit = TRUE]
  /\ UNCHANGED <<build, autoCheckTimer>>
  /\ UNCHANGED notifierVars
  /\ UNCHANGED appVarsAll

\* the button 'Restart & Install', shown in state 'downloaded':
\* autoUpdater.quitAndInstall
handleInstall ==
  /\ Running
  /\ visible /\ updateState = "downloaded" /\ updateInfo # "null"
  /\ autoUpdater' = [autoUpdater EXCEPT !.quit = TRUE]
  /\ UNCHANGED <<build, autoCheckTimer>>
  /\ UNCHANGED notifierVars
  /\ UNCHANGED appVarsAll

\* the close button, shown in states 'error' and 'idle'
handleDismiss ==
  /\ Running
  /\ visible /\ updateState \in {"error", "idle"}
  /\ visible' = FALSE
  /\ UNCHANGED <<updateState, updateInfo, progress, error, hideTimers>>
  /\ UNCHANGED mainVars
  /\ UNCHANGED appVarsAll

\* a 3 second auto-hide timer fires
hideTimeout ==
  /\ Running
  /\ hideTimers > 0
  /\ hideTimers' = hideTimers - 1
  /\ visible' = FALSE
  /\ UNCHANGED <<updateState, updateInfo, progress, error>>
  /\ UNCHANGED mainVars
  /\ UNCHANGED appVarsAll

\* what the updater does by itself
UpdaterEvents ==
  \/ autoCheckTimeout
  \/ updateAvailable
  \/ updateNotAvailable
  \/ updaterError
  \/ updateDownloaded

NextUpdate ==
  \/ \E kind \in {"development", "packaged"} : whenReady(kind)
  \/ UpdaterEvents
  \/ downloadProgress
  \/ handleCheckNow
  \/ handleDownload
  \/ handleInstall
  \/ handleDismiss
  \/ hideTimeout

Init ==
  /\ appMode = "knob"
  /\ knobHistory = << DEFAULT_KNOB >>
  /\ knobHistoryIndex = 0
  /\ enclosureHistory = << DEFAULT_ENCLOSURE >>
  /\ enclosureHistoryIndex = 0
  /\ historyTimeoutRef = << >>
  /\ isGenerating = FALSE
  /\ aiCall = [ state |-> "idle", value |-> << >>, cause |-> "" ]
  /\ toast = [ message |-> "", type |-> "info", id |-> 0 ]
  /\ hidden = {}
  /\ stl = NoExports
  /\ isExporting = FALSE
  /\ geometries = << [ regions |-> Len(KnobSlices(DEFAULT_KNOB)), disposals |-> 0 ] >>
  /\ meshBuild = 1
  /\ cleanupOf = 1
  /\ activeTab = "design"
  /\ build = "unlaunched"
  /\ autoUpdater = [ phase |-> "idle", available |-> FALSE, downloaded |-> FALSE,
                     quit |-> FALSE ]
  /\ autoCheckTimer = FALSE
  /\ updateState = "idle"
  /\ updateInfo = "null"
  /\ progress = "null"
  /\ error = "null"
  /\ visible = FALSE
  /\ hideTimers = 0
  /\ knobParams = DEFAULT_KNOB
  /\ shapes = KnobShapes(DEFAULT_KNOB)
  /\ slices = KnobSlices(DEFAULT_KNOB)
  /\ enclosureParams = DEFAULT_ENCLOSURE
  /\ drills = DrillSubtractions(DEFAULT_ENCLOSURE)
  /\ posts = PostAdditions(DEFAULT_ENCLOSURE)
  /\ screws = ScrewSubtractions(DEFAULT_ENCLOSURE)
  /\ clampDeps = ClampDeps(DEFAULT_KNOB)
  /\ svg = << >>

NextEnclosure ==
  \/ \E value \in ModelNames : handleUpdateEnclosureParam("model", value)
  \/ \E type \in AddableTypes : \E id \in NewIds : handleAddHole(type, id)
  \/ \E id \in EditedIds : handleRemoveHole(id)
  \/ \E id \in EditedIds : \E key \in DOMAIN HoleFieldValues :
       \E value \in HoleFieldValues[key] : handleUpdateHole(id, key, value)
  \/ handleExportSVG

\* ids of the holes removed to make room for new ones
RemovedIds == {"h1", "h2", "n1"}

\* adding, removing and moving holes; Math.random may return for a new hole
\* an id it has returned before
NextHoles ==
  \/ \E type \in AddableTypes : \E id \in NewIds : handleAddHole(type, id)
  \/ \E id \in RemovedIds : handleRemoveHole(id)
  \/ \E id \in EditedIds : \E key \in DOMAIN HoleFieldValues :
       \E value \in HoleFieldValues[key] : handleUpdateHole(id, key, value)

SpecHoles == Init /\ [][NextHoles]_vars

\* the enclosure under edits of its model and holes, and template exports
SpecEnclosure == Init /\ [][NextEnclosure]_vars

\* the names the model select offers, and the positions of the wall slider
\* (min 1, max 4, step 0.1)
SelectableModels == { ENCLOSURE_DB[i].name : i \in 1..Len(ENCLOSURE_DB) }

WallThicknessValues == { 100 + 10 * k : k \in 0..30 }

NextShell ==
  \/ \E value \in SelectableModels : handleUpdateEnclosureParam("model", value)
  \/ \E value \in WallThicknessValues :
       handleUpdateEnclosureParam("wallThickness", value)

\* the enclosure under edits of its model and wall thickness
SpecShell == Init /\ [][NextShell]_vars

\* effects are flushed before the next event is handled
NextClamp ==
  \/ /\ ~ClampPending
     /\ \E key \in DOMAIN ClampFieldValues : \E value \in ClampFieldValues[key] :
          handleUpdateKnobParam(key, value)
  \/ /\ ~ClampPending
     /\ \E newParams \in AiClampReplies : handleAiGenerate(newParams)
  \/ clampEffect

\* the knob record under edits and AI merges, with the clamp effect
SpecClamp == Init /\ [][NextClamp]_vars

\* the app under edits, debounced history, AI requests and project loads
SpecBoundary == Init /\ [][NextBoundary]_vars

\* the knob and the enclosure under STL exports
SpecExport == Init /\ [][NextExport]_vars

\* KnobMesh under edits, tab changes, unmounts and mounts
SpecDispose == Init /\ [][NextDispose]_vars

\* edits, the debounce timer, undo, redo, reset, preset and project load
SpecHistory == Init /\ [][NextHistory]_vars

\* edits in both modes and the debounce timer
SpecDebounce == Init /\ [][NextDebounce]_vars

\* the update flow
SpecUpdate == Init /\ [][NextUpdate]_vars

\* the update flow, where the updater answers every check and ends every
\* download, and timers fire
SpecUpdateFair ==
  /\ Init
  /\ [][NextUpdate]_vars
  /\ WF_vars(UpdaterEvents)
  /\ WF_vars(hideTimeout)

NextSlices ==
  \/ \E key \in DOMAIN SliceFieldValues : \E value \in SliceFieldValues[key] :
       handleUpdateKnobParam(key, value)
  \/ \E newParams \in AiSliceReplies : handleAiGenerate(newParams)
  \/ confirmReset

NextProfile ==
  \/ \E key \in DOMAIN ProfileFieldValues : \E value \in ProfileFieldValues[key] :
       handleUpdateKnobParam(key, value)
  \/ \E newParams \in AiProfileReplies : handleAiGenerate(newParams)
  \/ confirmReset

\* the knob under edits of its heights, cap and top
SpecSlices == Init /\ [][NextSlices]_vars

\* the knob under edits of its shape and shaft fit
SpecProfile == Init /\ [][NextProfile]_vars

----------------------------------------------------------------------------
(* Properties of the slice list *)

Top(r) == r.y + r.geo.depth

\* the data-model invariants of a knob record
ValidKnob(p) ==
  /\ p.height > 0
  /\ 0 <= p.shaftDepth
  /\ p.shaftDepth <= p.height
  /\ (p.hasCap => 2 * p.capHeight <= p.height)

\* what the slice list leaves uncovered of [0, height): the stretch below
\* the first region, between two consecutive regions, and above the last
GapBefore(i) ==
  IF i = 1 THEN slices[1].y ELSE slices[i].y - Top(slices[i - 1])

GapAfterLast == knobParams.height - Top(slices[Len(slices)])

\* C1: for every valid knob record the slice list is non-empty, its base
\* heights are non-decreasing, its intervals [y, y + depth) are pairwise
\* disjoint, no region starts below 0 or ends above the knob's height, and
\* what is left uncovered of [0, height) is slivers no taller than 0.1 mm.
C1_SlicesPartitionHeight ==
  ValidKnob(knobParams) =>
    /\ slices # << >>
    /\ \A i \in 1..Len(slices) : \A j \in 1..Len(slices) :
         i < j => /\ slices[i].y <= slices[j].y
                  /\ Top(slices[i]) <= slices[j].y
    /\ \A i \in 1..Len(slices) :
         /\ slices[i].y >= 0
         /\ Top(slices[i]) <= knobParams.height
         /\ GapBefore(i) <= 10
    /\ GapAfterLast <= 10

\* C2: every region below the clamped shaft depth is bored, every region
\* above it is solid exactly when closedTop is set, every region is one or
\* the other, and so with closedTop unset every region is bored.
C2_BoredBelowShaftDepth ==
  LET depth == Min(knobParams.shaftDepth, knobParams.height)
  IN  \A i \in 1..Len(slices) :
        LET r == slices[i]
        IN  /\ Top(r) <= depth \/ r.y >= depth
            /\ Top(r) <= depth =>
                 /\ r.geo.shape = "shapeHollow"
                 /\ r.name \in {"Body_Hollow", "Cap_Hollow"}
            /\ r.y >= depth =>
                 /\ (r.geo.shape = "shapeSolid") <=> knobParams.closedTop
                 /\ r.name \in {"Body_Solid", "Cap_Solid"}
            /\ ~knobParams.closedTop => r.geo.shape = "shapeHollow"

\* an open-topped capped knob whose shaft ends inside the cap: regions on
\* both sides of the shaft depth, all of them bored
C2_Witness ==
  /\ ~knobParams.closedTop
  /\ knobParams.hasCap
  /\ \E i \in 1..Len(slices) : slices[i].name = "Cap_Hollow"
  /\ \E i \in 1..Len(slices) :
       /\ slices[i].name = "Cap_Solid"
       /\ slices[i].y >= knobParams.shaftDepth

IsDefaultKnob(p) ==
  /\ p.diameter = Mm(20)
  /\ p.height = Mm(18)
  /\ p.shape = CYLINDER
  /\ p.closedTop
  /\ ~p.hasCap
  /\ p.shaftType = SPLINED
  /\ p.shaftDiameter = Mm(6)
  /\ p.shaftDepth = Mm(14)

\* C3: the default knob is sliced into exactly Body_Hollow, base 0, 14 mm
\* tall, bored, followed by Body_Solid, base 14 mm, 4 mm tall, solid.
C3_DefaultKnobSlices ==
  IsDefaultKnob(knobParams) =>
    /\ Len(slices) = 2
    /\ slices[1].name = "Body_Hollow"
    /\ slices[1].y = 0
    /\ slices[1].geo.depth = Mm(14)
    /\ slices[1].geo.shape = "shapeHollow"
    /\ slices[2].name = "Body_Solid"
    /\ slices[2].y = Mm(14)
    /\ slices[2].geo.depth = Mm(4)
    /\ slices[2].geo.shape = "shapeSolid"

\* the default knob, rendered
C3_Witness ==
  /\ IsDefaultKnob(knobParams)
  /\ slices = KnobSlices(knobParams)
  /\ Len(slices) = 2

----------------------------------------------------------------------------
(* Properties of the profiles *)

\* the bore of the hollow profile
Bore == shapes.shapeHollow.holes[1]

\* holeTolerance, 0.15 mm when the record does not set it
Tolerance(p) == IF p.holeTolerance = Undefined THEN 15 ELSE p.holeTolerance

\* the radius the bore is specified to have
EffectiveRadius(p) == p.shaftDiameter \div 2 + Tolerance(p)

\* C4: the bore includes the hole tolerance: a Round bore is the full
\* clockwise circle of radius shaftDiameter/2 + holeTolerance, and the same
\* radius is the outer radius of the Splined and the D-Shaft bore.
C4_BoreIncludesTolerance ==
  LET r == EffectiveRadius(knobParams)
  IN  CASE knobParams.shaftType = ROUND ->
             Bore = << absarc(0, 0, r, 0, TwoPi, TRUE) >>
        [] knobParams.shaftType = SPLINED ->
             /\ Bore[1].x = r
             /\ Bore[1].y = 0
        [] OTHER ->
             Bore[1].r = r

\* C5: for a D-Shaft with shaftDiameter/2 < dFlatSize < shaftDiameter the
\* flat is a horizontal chord with end points at +x and -x, and the distance
\* from the flat to the opposite wall of the bore is dFlatSize +
\* holeTolerance.
C5_DShaftFlat ==
  ( /\ knobParams.shaftType = D_SHAFT
    /\ knobParams.shaftDiameter < 2 * knobParams.dFlatSize
    /\ knobParams.dFlatSize < knobParams.shaftDiameter )
  =>
    /\ ~IsNaN(Bore[2].x) /\ ~IsNaN(Bore[3].x)
    /\ Bore[2].y = Bore[3].y
    /\ Bore[2].x = 0 - Bore[3].x
    /\ Bore[1].r - Bore[2].y = knobParams.dFlatSize + Tolerance(knobParams)

\* C6: for a D-Shaft whose flat lies off the bore circle no coordinate or
\* angle of the bore is NaN, and the flat has zero width.
C6_DegenerateFlatIsFinite ==
  ( /\ knobParams.shaftType = D_SHAFT
    /\ Abs(FlatY(knobParams)) > ShaftR(knobParams) )
  =>
    /\ ~HasNaNPoint(PathPoints(Bore))
    /\ ~IsNaN(Bore[1].aStart) /\ ~IsNaN(Bore[1].aEnd)
    /\ Bore[2].x = 0
    /\ Bore[3].x = 0

\* C7: for every shape and every shaft type the outer boundary runs
\* counter-clockwise and the bore runs clockwise.
C7_OppositeWinding ==
  LET outer == SignedArea(shapes.shapeHollow.outer)
      bore  == SignedArea(Bore)
  IN  /\ ~IsNaN(outer) /\ outer > 0
      /\ ~IsNaN(bore)  /\ bore < 0

----------------------------------------------------------------------------
(* Properties of the drill placement and of the drill template *)

Holes == enclosureParams.holes

Box == Specs(enclosureParams.model)

\* the face table: world position before centring, and Euler rotation in
\* quarter turns
FaceTable(face, x, y, W, H, L) ==
  CASE face = TOP    -> [ pos |-> <<x, H, y>>,                          rot |-> <<0, 0, 0>> ]
    [] face = BOTTOM -> [ pos |-> <<x, 0, y>>,                          rot |-> <<2, 0, 0>> ]
    [] face = RIGHT  -> [ pos |-> <<W \div 2, H \div 2 + y, x>>,        rot |-> <<0, 0, -1>> ]
    [] face = LEFT   -> [ pos |-> <<0 - (W \div 2), H \div 2 + y, x>>,  rot |-> <<0, 0, 1>> ]
    [] face = FRONT  -> [ pos |-> <<x, H \div 2 + y, L \div 2>>,        rot |-> <<1, 0, 0>> ]
    [] face = BACK   -> [ pos |-> <<x, H \div 2 + y, 0 - (L \div 2)>>,  rot |-> <<-1, 0, 0>> ]

\* outward normal of a face of the box centred at the origin
FaceNormal(face) ==
  CASE face = TOP    -> <<0, 1, 0>>
    [] face = BOTTOM -> <<0, -1, 0>>
    [] face = RIGHT  -> <<1, 0, 0>>
    [] face = LEFT   -> <<-1, 0, 0>>
    [] face = FRONT  -> <<0, 0, 1>>
    [] face = BACK   -> <<0, 0, -1>>

\* centre of a face of the W x H x L box centred at the origin
FaceCentre(face, W, H, L) ==
  << FaceNormal(face)[1] * (W \div 2),
     FaceNormal(face)[2] * (H \div 2),
     FaceNormal(face)[3] * (L \div 2) >>

\* cosine and sine of k quarter turns
QCos(k) == CASE k = 0 -> 1 [] k = 2 -> -1 [] k = -2 -> -1 [] OTHER -> 0

QSin(k) == CASE k = 1 -> 1 [] k = -1 -> -1 [] OTHER -> 0

RotX(v, k) ==
  << v[1], v[2] * QCos(k) - v[3] * QSin(k), v[2] * QSin(k) + v[3] * QCos(k) >>

RotZ(v, k) ==
  << v[1] * QCos(k) - v[2] * QSin(k), v[1] * QSin(k) + v[2] * QCos(k), v[3] >>

\* direction of a cylinder's axis (its local Y) under an Euler rotation
BoreAxis(rot) == RotX(RotZ(<<0, 1, 0>>, rot[3]), rot[1])

Dot(u, v) == u[1] * v[1] + u[2] * v[2] + u[3] * v[3]

Minus(u, v) == << u[1] - v[1], u[2] - v[2], u[3] - v[3] >>

\* C8: getDrillTransform gives every hole exactly the position and rotation
\* of the face table; after the H/2 centring applied at subtraction the bore
\* sits in the plane of its face of the W x H x L box, local (0,0) is the
\* centre of that face, and the bore axis is the face's normal.
C8_DrillTransformTable ==
  LET W == Box.width
      H == Box.height
      L == Box.length
  IN  /\ Len(drills) = Len(Holes)
      /\ \A i \in 1..Len(Holes) :
           LET h == Holes[i]
               e == FaceTable(h.face, h.x, h.y, W, H, L)
               c == FaceCentre(h.face, W, H, L)
           IN  /\ getDrillTransform(Box, h.face, h.x, h.y) = e
               /\ drills[i].position = Minus(e.pos, <<0, H \div 2, 0>>)
               /\ drills[i].rotation = e.rot
               /\ Dot(Minus(drills[i].position, c), FaceNormal(h.face)) = 0
               /\ (h.x = 0 /\ h.y = 0) => drills[i].position = c
               /\ BoreAxis(drills[i].rotation) = FaceNormal(h.face)

\* a hole moved off the centre of the front face of the 1590DD and one on
\* the bottom face, both placed
C8_Witness ==
  /\ enclosureParams.model = "1590DD"
  /\ \E i \in 1..Len(Holes) :
       /\ Holes[i].face \in {FRONT, BOTTOM}
       /\ Holes[i].x = Mm(10)
       /\ Holes[i].y = Mm(10)
       /\ drills[i].position \in { <<Mm(10), Mm(10), Mm(187) \div 2>>,
                                   <<Mm(10), 0 - Mm(28), Mm(10)>> }

DrawnFaces == << TOP, RIGHT, LEFT, BACK, FRONT >>

\* centre of each face's rectangle on the sheet: the top face at (300, 300),
\* left and right beside it, back above and front below, 20 apart
SheetCentre(face, W, H, L) ==
  CASE face = TOP   -> << Mm(300), Mm(300) >>
    [] face = RIGHT -> << Mm(300) + (W \div 2) + Mm(20) + (H \div 2), Mm(300) >>
    [] face = LEFT  -> << Mm(300) - (W \div 2) - Mm(20) - (H \div 2), Mm(300) >>
    [] face = BACK  -> << Mm(300), Mm(300) - (L \div 2) - Mm(20) - (H \div 2) >>
    [] face = FRONT -> << Mm(300), Mm(300) + (L \div 2) + Mm(20) + (H \div 2) >>

\* the stated local-to-sheet offsets
SheetOffset(face, h) ==
  CASE face = TOP   -> << h.x, h.y >>
    [] face = RIGHT -> << h.y, h.x >>
    [] face = LEFT  -> << 0 - h.y, h.x >>
    [] face = FRONT -> << h.x, h.y >>
    [] face = BACK  -> << h.x, 0 - h.y >>

HolesOn(face) == SelectSeq(Holes, LAMBDA h : h.face = face)

ExpectedCirclesOn(face) ==
  LET c == SheetCentre(face, Box.width, Box.height, Box.length)
  IN  [ i \in 1..Len(HolesOn(face)) |->
          SvgCircle(c[1] + SheetOffset(face, HolesOn(face)[i])[1],
                    c[2] + SheetOffset(face, HolesOn(face)[i])[2],
                    HolesOn(face)[i].diameter \div 2) ]

ExpectedCircles ==
  ExpectedCirclesOn(TOP) \o ExpectedCirclesOn(RIGHT) \o ExpectedCirclesOn(LEFT)
    \o ExpectedCirclesOn(BACK) \o ExpectedCirclesOn(FRONT)

Circles(doc) == SelectSeq(doc, LAMBDA e : e.tag = "circle")

\* C9: the exported template holds, for the holes of Top, Right, Left, Back
\* and Front, exactly one circle each, of radius diameter/2, centred at the
\* centre of the face's rectangle plus TOP (x, y), RIGHT (y, x), LEFT (-y, x),
\* FRONT (x, y), BACK (x, -y), each followed by the two segments of its
\* crosshair; for the 1590B a Top hole at (0, -30) of diameter 12 is the
\* circle of radius 6 at (300, 270).
C9_TemplateCircles ==
  svg # << >> =>
    /\ Circles(svg) = ExpectedCircles
    /\ \A f \in 1..Len(DrawnFaces) :
         LET c == SheetCentre(DrawnFaces[f], Box.width, Box.height, Box.length)
         IN  \E k \in 1..Len(svg) :
               /\ svg[k].tag = "rect"
               /\ svg[k].x + (svg[k].w \div 2) = c[1]
               /\ svg[k].y + (svg[k].h \div 2) = c[2]
    /\ \A k \in 1..Len(svg) :
         svg[k].tag = "circle" =>
           /\ k + 2 <= Len(svg)
           /\ svg[k + 1] = SvgLine(svg[k].cx - svg[k].r, svg[k].cy,
                                   svg[k].cx + svg[k].r, svg[k].cy)
           /\ svg[k + 2] = SvgLine(svg[k].cx, svg[k].cy - svg[k].r,
                                   svg[k].cx, svg[k].cy + svg[k].r)
    /\ ( /\ enclosureParams.model = "1590B"
         /\ \E i \in 1..Len(Holes) :
              /\ Holes[i].face = TOP
              /\ Holes[i].x = 0
              /\ Holes[i].y = 0 - Mm(30)
              /\ Holes[i].diameter = Mm(12) )
       => \E k \in 1..Len(svg) : svg[k] = SvgCircle(Mm(300), Mm(270), Mm(6))

\* a template exported with a hole moved to the back face, off its centre line
C9_Witness ==
  /\ svg # << >>
  /\ \E i \in 1..Len(Holes) : Holes[i].face = BACK /\ Holes[i].y # 0
  /\ \E i \in 1..Len(Holes) : Holes[i].face = LEFT /\ Holes[i].y # 0
  /\ Len(Circles(svg)) >= 5

\* displacements tried on every hole
Deltas == {0 - Mm(5), Mm(3)}

\* the box axis (1 = X, 2 = Y, 3 = Z) each sheet axis of a face's rectangle
\* depicts
SheetDepicts(face) ==
  CASE face = TOP   -> <<1, 3>>
    [] face = RIGHT -> <<2, 3>>
    [] face = LEFT  -> <<2, 3>>
    [] face = FRONT -> <<1, 2>>
    [] face = BACK  -> <<1, 2>>

\* v and w differ by d in magnitude along axis a and not at all elsewhere
MovedAlong(v, w, a, d) ==
  \A k \in 1..Len(v) :
    IF k = a THEN Abs(w[k] - v[k]) = Abs(d) ELSE w[k] = v[k]

ConsistentMove(h, moved, d) ==
  LET from3 == getDrillTransform(Box, h.face, h.x, h.y).pos
      to3   == getDrillTransform(Box, h.face, moved.x, moved.y).pos
      c     == SheetCentre(h.face, Box.width, Box.height, Box.length)
      from2 == HolePoint(h.face, c[1], c[2], h)
      to2   == HolePoint(h.face, c[1], c[2], moved)
  IN  \E s \in 1..2 :
        /\ MovedAlong(from2, to2, s, d)
        /\ MovedAlong(from3, to3, SheetDepicts(h.face)[s], d)

\* C10: on every face drawn in the template, moving a hole by D in local x,
\* or by D in local y, moves the bore by |D| along exactly one box axis and
\* the template circle by |D| along the sheet axis that depicts that box
\* axis, and along no other axis.
C10_MoveConsistent ==
  \A i \in 1..Len(Holes) : \A d \in Deltas :
    LET h == Holes[i]
    IN  h.face # BOTTOM =>
          /\ ConsistentMove(h, [h EXCEPT !.x = h.x + d], d)
          /\ ConsistentMove(h, [h EXCEPT !.y = h.y + d], d)

\* a hole that has been moved to the right face and along it, beside holes
\* on the top, left and back faces
C10_Witness ==
  /\ \E i \in 1..Len(Holes) :
       Holes[i].face = RIGHT /\ Holes[i].x = Mm(10) /\ Holes[i].y = 0 - Mm(30)
  /\ \A f \in {TOP, LEFT, BACK} : \E i \in 1..Len(Holes) : Holes[i].face = f

----------------------------------------------------------------------------
(* Agreement of the assembler and the projector *)

CountOf(seq, Test(_)) == Cardinality({ i \in 1..Len(seq) : Test(seq[i]) })

\* C11: the assembler and the projector agree on the set of holes: both look
\* the model up to the same W, H, L (the same fallback for an unrecognised
\* name), and in an exported template every bore subtracted from the body is
\* exactly one circle and every circle is exactly one subtracted bore, radius
\* by radius.
C11_AssemblerProjectorAgree ==
  /\ TemplateSpecs(enclosureParams.model) = Specs(enclosureParams.model)
  /\ svg # << >> =>
       /\ Len(Circles(svg)) = Len(drills)
       /\ \A r \in { drills[i].radius : i \in 1..Len(drills) }
                     \cup { Circles(svg)[k].r : k \in 1..Len(Circles(svg)) } :
            CountOf(Circles(svg), LAMBDA c : c.r = r)
              = CountOf(drills, LAMBDA d : d.radius = r)

----------------------------------------------------------------------------
(* The corner posts and their screw bores *)

\* lowest and highest point of an upright cylinder, doubled
Bottom2(c) == 2 * c.position[2] - c.height

Top2(c) == 2 * c.position[2] + c.height

InUiWallRange == THICK(enclosureParams) >= Mm(1) /\ THICK(enclosureParams) <= Mm(4)

\* C12: for every wall thickness of the UI, each body screw bore (height
\* H + 5, centred at y = -wallThickness) is concentric with its corner post
\* and covers the post's whole vertical extent [-H/2, +H/2].
C12_ScrewBorePenetratesPost ==
  InUiWallRange =>
    \A i \in 1..Len(posts) :
      /\ screws[i].position[1] = posts[i].position[1]
      /\ screws[i].position[3] = posts[i].position[3]
      /\ Bottom2(posts[i]) = 0 - Box.height
      /\ Top2(posts[i]) = Box.height
      /\ Bottom2(screws[i]) <= Bottom2(posts[i])
      /\ Top2(screws[i]) >= Top2(posts[i])

\* squared distance of two posts in the footprint plane
Dist2(a, b) ==
  (a.position[1] - b.position[1]) * (a.position[1] - b.position[1])
    + (a.position[3] - b.position[3]) * (a.position[3] - b.position[3])

\* C13: for every wall thickness of the UI the corner posts and their screw
\* bores lie strictly inside the outer footprint: post radius 3 plus the
\* inset 4 + wallThickness is less than W/2 and L/2, the post centres are at
\* (+-(W/2 - inset), +-(L/2 - inset)), more than 3 mm from every side face,
\* each bore lies within its post, and the four posts are pairwise disjoint.
C13_PostsInsideFootprint ==
  InUiWallRange =>
    LET inset == Mm(4) + THICK(enclosureParams)
        W2    == Box.width \div 2
        L2    == Box.length \div 2
    IN  /\ Mm(3) + inset < W2
        /\ Mm(3) + inset < L2
        /\ Len(posts) = 4
        /\ Len(screws) = 4
        /\ { << posts[i].position[1], posts[i].position[3] >> : i \in 1..4 }
             = { << sx * (W2 - inset), sz * (L2 - inset) >> :
                   sx \in {-1, 1}, sz \in {-1, 1} }
        /\ \A i \in 1..4 :
             /\ W2 - Abs(posts[i].position[1]) > posts[i].radius
             /\ L2 - Abs(posts[i].position[3]) > posts[i].radius
             /\ posts[i].radius = Mm(3)
             /\ screws[i].radius < posts[i].radius
             /\ Dist2(screws[i], posts[i]) = 0
        /\ \A i \in 1..4 : \A j \in 1..4 :
             i # j => Dist2(posts[i], posts[j])
                        > (posts[i].radius + posts[j].radius)
                            * (posts[i].radius + posts[j].radius)

\* the narrowest box with the thickest wall
C13_Witness ==
  /\ enclosureParams.model = "1590A"
  /\ enclosureParams.wallThickness = Mm(4)
  /\ posts[1].position = << 1150, 0, 3850 >>

----------------------------------------------------------------------------
(* The clamp effect *)

\* C14: once the clamp effect has run to the end after a change of the knob
\* record, shaftDepth <= height, and capHeight <= height / 2 when the knob
\* has a cap.
C14_ClampsHoldWhenSettled ==
  ~ClampPending =>
    /\ knobParams.shaftDepth <= knobParams.height
    /\ knobParams.hasCap => 2 * knobParams.capHeight <= knobParams.height

----------------------------------------------------------------------------
(* Failed boundary operations *)

\* the parameter state: the mode, both records, both histories and indices
ParameterState ==
  << appMode, knobParams, enclosureParams, knobHistory, knobHistoryIndex,
     enclosureHistory, enclosureHistoryIndex >>

\* a step in which handleAiGenerate resumes from a rejected request
AiFailureStep == aiCall.state = "rejected" /\ aiCall'.state = "idle"

\* a step that raises the toast of a failed project load
LoadFailureStep ==
  /\ toast' # toast
  /\ toast'.message = "Failed to load project. Invalid file format."

\* C15: a failed boundary operation leaves the parameter state unchanged.
\* Sending the AI request and its rejection change nothing of the mode, the
\* records, the histories and the indices; when the handler resumes from a
\* rejection it changes none of them either, shows an error toast and
\* isGenerating is false; a project file that fails to parse changes none of
\* them and shows an error toast.
C15_FailureLeavesStateUnchanged ==
  [][ /\ (aiCall.state = "idle" /\ aiCall'.state = "awaiting")
          => (isGenerating' /\ UNCHANGED ParameterState)
      /\ (aiCall.state = "awaiting" /\ aiCall'.state = "rejected")
          => UNCHANGED ParameterState
      /\ AiFailureStep
          => /\ UNCHANGED ParameterState
             /\ toast' # toast
             /\ toast'.type = "error"
             /\ ~isGenerating'
      /\ LoadFailureStep
          => /\ UNCHANGED ParameterState
             /\ toast'.type = "error" ]_vars

\* the handler has resumed from a rejection, with the toast of the failure
\* up, after an edit was recorded in the history
C15_Witness ==
  /\ toast.message = "Failed to generate parameters."
  /\ aiCall.state = "idle"
  /\ ~isGenerating
  /\ Len(knobHistory) = 2
  /\ knobHistoryIndex = 1

----------------------------------------------------------------------------
(* The STL export *)

\* a step in which handleExportSTL has run to its end
ExportStep ==
  /\ toast' # toast
  /\ toast'.message \in { "Export failed", "knob.stl exported successfully!",
                          "enclosure.stl exported successfully!" }

\* C16: handleExportSTL leaves the scene unchanged: when it has finished,
\* whether the serializer returned or threw, every object of the exported
\* group has the visible flag it had before, and isExporting is false.
C16_ExportRestoresVisibility ==
  [][ ExportStep => (hidden' = hidden /\ ~isExporting') ]_vars

\* the three files, once each has been exported of the knob as it is now
File(type) == stl[type].meshes

AllThreeExported ==
  \A type \in DOMAIN stl : stl[type].mode = "knob" /\ stl[type].invisible = {}

\* C17: for a knob with a cap, every mesh written by the export of 'all' is
\* written by exactly one of the exports 'body' and 'cap'; the body file
\* holds no cap region and the cap file no body region.
C17_BodyAndCapSplitAll ==
  (knobParams.hasCap /\ AllThreeExported) =>
    /\ \A name \in File("all") : (name \in File("body")) # (name \in File("cap"))
    /\ File("body") \cup File("cap") \subseteq File("all")
    /\ File("body") \cap {"Cap_Hollow", "Cap_Solid"} = {}
    /\ File("cap") \cap {"Body_Hollow", "Body_Solid"} = {}

----------------------------------------------------------------------------
(* Build-then-release of the slice geometries *)

Builds == 1..Len(geometries)

\* number of geometries of a build that have not been disposed
Live(b) == IF geometries[b].disposals = 0 THEN geometries[b].regions ELSE 0

RECURSIVE LiveUpTo(_)
LiveUpTo(b) == IF b = 0 THEN 0 ELSE Live(b) + LiveUpTo(b - 1)

LiveGeometries == LiveUpTo(Len(geometries))

CurrentRegions == IF meshBuild = 0 THEN 0 ELSE geometries[meshBuild].regions

\* C18 as stated: the live undisposed slice geometries never exceed the
\* region count of the current build.
C18_LiveWithinCurrentBuild ==
  /\ LiveGeometries <= CurrentRegions
  /\ CurrentRegions <= 4

\* C18, amended: every geometry is disposed at most once and never while it
\* is on the meshes; the live geometries never exceed the regions of the
\* current build plus those of the one build still awaiting its cleanup (at
\* most 8); and once the cleanup effect has run every replaced or unmounted
\* build has been disposed exactly once, so the live geometries are exactly
\* those of the current build.
C18_BuildThenRelease ==
  /\ \A b \in Builds :
       /\ geometries[b].disposals <= 1
       /\ geometries[b].disposals > 0 => b # meshBuild
       /\ geometries[b].regions <= 4
       /\ (b # meshBuild /\ b # cleanupOf) => geometries[b].disposals = 1
  /\ LiveGeometries <= CurrentRegions
                         + (IF CleanupPending /\ cleanupOf # 0
                              THEN geometries[cleanupOf].regions ELSE 0)
  /\ LiveGeometries <= 8
  /\ ~CleanupPending => LiveGeometries = CurrentRegions

\* a third build is on the meshes after an unmount, the two before it have
\* been released
C18_Witness ==
  /\ Len(geometries) >= 3
  /\ meshBuild = Len(geometries)
  /\ ~CleanupPending
  /\ activeTab = "slicer"
  /\ \E b \in Builds : b < meshBuild /\ geometries[b].regions # CurrentRegions
  /\ \A b \in Builds : b < meshBuild => geometries[b].disposals = 1

----------------------------------------------------------------------------
(* The update flow *)

\* a step in which downloadUpdate is invoked
DownloadInvoked ==
  autoUpdater.phase # "downloading" /\ autoUpdater'.phase = "downloading"

\* a step in which installUpdate is invoked
InstallInvoked == ~autoUpdater.quit /\ autoUpdater'.quit

\* C19: downloadUpdate is invoked only by the click that takes the shown
\* notifier from 'available' to 'downloading', installUpdate only while the
\* shown notifier is in 'downloaded'; 'downloaded' is entered only on the
\* update-downloaded event; so an install is preceded by a completed
\* download, and that by an update-available event.
C19_UpdateFlowOrder ==
  /\ [][ DownloadInvoked =>
           /\ visible /\ updateState = "available"
           /\ updateState' = "downloading"
           /\ autoUpdater.available ]_vars
  /\ [][ InstallInvoked => (visible /\ updateState = "downloaded") ]_vars
  /\ [][ (updateState # "downloaded" /\ updateState' = "downloaded")
           => (autoUpdater.phase = "downloading" /\ autoUpdater'.phase = "idle"
                 /\ autoUpdater'.downloaded) ]_vars
  /\ [](autoUpdater.quit => autoUpdater.downloaded)
  /\ [](autoUpdater.downloaded => autoUpdater.available)

\* the update has been downloaded and the install invoked
C19_Witness ==
  /\ build = "packaged"
  /\ autoUpdater.quit
  /\ autoUpdater.downloaded
  /\ updateState = "downloaded"

\* C20: whenever the notifier is in 'checking' it eventually leaves it, in
\* packaged and in development builds.
C20_CheckingEnds ==
  (updateState = "checking") ~> (updateState # "checking")

----------------------------------------------------------------------------
(* The skirt *)

\* the height interval a cylinder mesh occupies
MeshBottom(c) == c.position[2] - c.height \div 2

MeshTop(c) == c.position[2] + c.height \div 2

\* C21: the skirt is present exactly when skirtHeight > 0, and when present
\* it lies at or below the knob base y = 0: it overlaps no sliced region and
\* does not close the bore opening at the base from above.
C21_SkirtBelowBase ==
  LET skirt == SkirtMesh(knobParams)
  IN  /\ (Len(skirt) = 1) <=> (knobParams.skirtHeight > 0)
      /\ Len(skirt) = 1 =>
           /\ MeshTop(skirt[1]) <= 0
           /\ \A i \in 1..Len(slices) :
                \/ MeshTop(skirt[1]) <= slices[i].y
                \/ MeshBottom(skirt[1]) >= slices[i].y + slices[i].geo.depth

----------------------------------------------------------------------------
(* The indicator and the flat *)

\* a point of the profile plane in the assembled knob: geo.rotateX turns the
\* extruded solid by the quarter turns recorded on the geometry
Assembled(x, y, geo) == RotX(<<x, y, 0>>, geo.rotateX)

\* horizontal offset of the indicator from the knob axis
IndicatorOffset(ind) == << ind.position[1], 0, ind.position[3] >>

ValidDFlat(p) ==
  /\ p.shaftType = D_SHAFT
  /\ p.shaftDiameter < 2 * p.dFlatSize
  /\ p.dFlatSize < p.shaftDiameter

\* C22: in the assembled knob the indicator is offset from the centre toward
\* the profile's +Y direction, and the D-Shaft flat lies on the other side of
\* the centre, for every diameter > 4 and every valid dFlatSize.
C22_IndicatorOppositeFlat ==
  LET ind == IndicatorMesh(knobParams)
  IN  (Len(ind) = 1 /\ Len(slices) > 0 /\ knobParams.diameter > Mm(4)) =>
        LET geo  == slices[1].geo
            off  == IndicatorOffset(ind[1])
            flat == Assembled(0, Bore[2].y, geo)
        IN  /\ Dot(off, Assembled(0, 1, geo)) > 0
            /\ ValidDFlat(knobParams) => Dot(off, flat) < 0

----------------------------------------------------------------------------
(* The labels of the regions *)

\* position of a label in the list of labels
Rank(labels, name) ==
  IF \E k \in 1..Len(labels) : labels[k] = name
    THEN CHOOSE k \in 1..Len(labels) : labels[k] = name
    ELSE 0

\* the regions carry only the four labels, each at most once, in this order
\* and at ascending heights; the region above the shaft inside the cap has
\* the fourth label; cap regions exist only with a cap
RegionLabels(labels) ==
  /\ \A i \in 1..Len(slices) : Rank(labels, slices[i].name) > 0
  /\ \A i, j \in 1..Len(slices) :
       i < j => /\ Rank(labels, slices[i].name) < Rank(labels, slices[j].name)
                /\ slices[i].y < slices[j].y
  /\ \A i \in 1..Len(slices) :
       Rank(labels, slices[i].name) >= 3 =>
         /\ knobParams.hasCap
         /\ slices[i].y >= BodyHeight(knobParams)
  /\ \A i \in 1..Len(slices) :
       ( /\ knobParams.hasCap
         /\ slices[i].y >= BodyHeight(knobParams)
         /\ slices[i].y >= ClampedShaftDepth(knobParams) )
       <=> slices[i].name = labels[4]

\* C23 as stated: the labels are Body_Hollow, Body_Solid, Cap_Hollow and
\* Cap_Top, each at most once and in ascending-height order; the region above
\* the shaft inside the cap is labelled "Cap_Top"; cap regions are emitted
\* only when hasCap is true.
C23_LabelsWithCapTop ==
  RegionLabels(<< "Body_Hollow", "Body_Solid", "Cap_Hollow", "Cap_Top" >>)

\* C23, amended: the same with the label "Cap_Solid" for the region above the
\* shaft inside the cap.
C23_LabelsWithCapSolid ==
  RegionLabels(<< "Body_Hollow", "Body_Solid", "Cap_Hollow", "Cap_Solid" >>)

\* a capped knob whose shaft reaches into the cap: both cap regions exist
C23_Witness ==
  /\ knobParams.hasCap
  /\ \E i, j \in 1..Len(slices) :
       slices[i].name = "Cap_Hollow" /\ slices[j].name = "Cap_Solid"

----------------------------------------------------------------------------
(* Adding, removing and updating holes *)

\* the hole diameters documented on ComponentType
DocumentedDiameter(type) ==
  CASE type = POT -> Mm(7)
    [] type = SWITCH_FOOT -> Mm(12)
    [] type = "Toggle Switch" -> Mm(6)
    [] type = JACK_AUDIO -> Mm(10)
    [] type = JACK_DC -> Mm(12)
    [] type = LED -> Mm(5)

\* a step that lengthens the holes list
AddHoleStep == Len(enclosureParams'.holes) > Len(Holes)

\* C24: handleAddHole appends exactly one hole at the end of the list, on
\* face Top at (0, 0), with the diameter documented for its component type,
\* and leaves the existing holes unchanged.
C24_AddHoleDefaults ==
  [][ AddHoleStep =>
        LET after == enclosureParams'.holes
            new   == after[Len(after)]
        IN  /\ Len(after) = Len(Holes) + 1
            /\ SubSeq(after, 1, Len(Holes)) = Holes
            /\ new.face = TOP /\ new.x = 0 /\ new.y = 0
            /\ new.diameter = DocumentedDiameter(new.type) ]_vars

\* the indices at which two hole lists of one length differ
Changed(before, after) == { i \in 1..Len(before) : before[i] # after[i] }

\* the fields in which two holes differ
ChangedFields(h, g) == { f \in DOMAIN h : h[f] # g[f] }

\* C25: hole ids are pairwise distinct after any sequence of handleAddHole,
\* handleRemoveHole and handleUpdateHole, so a removal removes exactly one
\* hole and an update changes exactly one field of exactly one hole, keeping
\* the order of the others.
C25_HoleIdsDistinct ==
  /\ [](\A i, j \in 1..Len(Holes) : i # j => Holes[i].id # Holes[j].id)
  /\ [][ Len(enclosureParams'.holes) < Len(Holes) =>
           Len(enclosureParams'.holes) = Len(Holes) - 1 ]_vars
  /\ [][ ( /\ Len(enclosureParams'.holes) = Len(Holes)
           /\ enclosureParams'.holes # Holes ) =>
           \E i \in 1..Len(Holes) :
             /\ Changed(Holes, enclosureParams'.holes) = {i}
             /\ Cardinality(ChangedFields(Holes[i], enclosureParams'.holes[i])) = 1
       ]_vars

----------------------------------------------------------------------------
(* The histories *)

\* C26: in every reachable state each history has between 1 and 50 entries
\* and its index satisfies 0 <= index <= length - 1.
C26_HistoryBounds ==
  /\ Len(knobHistory) \in 1..50
  /\ knobHistoryIndex \in 0..(Len(knobHistory) - 1)
  /\ Len(enclosureHistory) \in 1..50
  /\ enclosureHistoryIndex \in 0..(Len(enclosureHistory) - 1)

\* the record handleUndo displays: the snapshot below the index
UndoShows == knobHistory[(knobHistoryIndex - 1) + 1]

\* the record handleRedo displays when it follows that undo: the snapshot
\* above the index the undo has set
UndoRedoShows == knobHistory[((knobHistoryIndex - 1) + 1) + 1]

\* C27: whenever undo is enabled, undo followed at once by redo displays the
\* record displayed before the undo, also while the latest edit waits in the
\* debounce window; and when no timer is pending the displayed record is
\* history[index].
C27_UndoRedoIdentity ==
  (appMode = "knob" /\ knobHistoryIndex \in 1..(Len(knobHistory) - 1)) =>
    /\ UndoRedoShows = knobParams
    /\ historyTimeoutRef = << >> => knobHistory[knobHistoryIndex + 1] = knobParams

\* what the snapshot history of a mode is
HistoryOf(mode) == IF mode = "knob" THEN knobHistory ELSE enclosureHistory

\* a step that records the pending edit in the history of its mode
Recorded(t) ==
  /\ historyTimeoutRef' = << >>
  /\ LET after == IF t.mode = "knob" THEN knobHistory' ELSE enclosureHistory'
     IN  after[Len(after)] = t.params

\* C28: a pending edit stays pending until it is recorded in the history of
\* its own mode or replaced by a later edit of the same mode; an edit in the
\* other mode never cancels it.
C28_EditRecordedInOwnMode ==
  [][ historyTimeoutRef # << >> =>
        \/ historyTimeoutRef' = historyTimeoutRef
        \/ Recorded(historyTimeoutRef[1])
        \/ /\ historyTimeoutRef' # << >>
           /\ historyTimeoutRef'[1].mode = historyTimeoutRef[1].mode ]_vars

\* a step of confirmReset, the preset select or a successful project load
ResetStep ==
  /\ toast' # toast
  /\ toast'.message \in {"Reset to defaults", "Loaded preset",
                         "Project loaded successfully!"}

\* the timer of an edit that is no longer displayed fires while the knob
\* history is the one-element list of the displayed record: the edit was
\* made before the reset or load that set up this history
StaleTimeoutStep ==
  /\ knobHistory = << knobParams >>
  /\ knobHistoryIndex = 0
  /\ historyTimeoutRef # << >>
  /\ historyTimeoutRef[1].mode = "knob"
  /\ historyTimeoutRef[1].params # knobParams
  /\ historyTimeoutRef' = << >>

\* C29: after confirmReset, a preset load or a project load the history is
\* the one-element list of the new record with index 0, and the timer of an
\* edit made before it neither appends a snapshot nor moves the index.
C29_ResetHistoryStays ==
  /\ [][ ResetStep => (knobHistory' = << knobParams' >> /\ knobHistoryIndex' = 0) ]_vars
  /\ [][ StaleTimeoutStep =>
           (knobHistory' = knobHistory /\ knobHistoryIndex' = 0) ]_vars

----------------------------------------------------------------------------
(* The auto-hide timer *)

\* the notifier shows an update that is available, downloading or
\* downloaded, or a failure
ShowsUpdate ==
  /\ visible
  /\ updateState \in {"available", "downloading", "downloaded", "error"}

\* C30: a notification of an available, downloading, downloaded or failed
\* update stays visible until the user dismisses it: no auto-hide timer
\* started by an earlier update-not-available event hides it.
C30_NoStaleAutoHide ==
  [][ (ShowsUpdate /\ ~visible') => hideTimers' = hideTimers ]_vars

====
